---- MODULE Spec2Model ----
(***************************************************************************)
(* Atmospheric state estimation of the Mars-habitat tools.                 *)
(*                                                                         *)
(* Two programs are modelled side by side:                                 *)
(*   - the Tk habitat designer  (idpCreateHome.py, class DrawingApp):      *)
(*     rooms_list, doors_list, sensors_list, the ground-truth grids, the   *)
(*     reconstructed grid and the two regression models;  specification    *)
(*     Spec.                                                               *)
(*   - the thread-driven colony (better-sample.py, class ColonySimulation):*)
(*     rooms, doors, breaches and update_simulation(dt_hours);             *)
(*     specification AtmosphereSpec, next to the designer's atmosphere.    *)
(*                                                                         *)
(* Gas levels are Python floats in the source.  Here they are fixed-point  *)
(* integers: one O2 unit is 1/O2Scale percent, one CO2 unit is 1/CO2Scale  *)
(* ppm, and a rate is a pair <<numerator, denominator>>.  A product        *)
(* level * rate is rounded down to a whole unit.                           *)
(***************************************************************************)
EXTENDS Integers, Sequences, FiniteSets, TLC

\* ------------------------------------------------------------------ bounds
\* Width and height of the drawable plan in pixels (600 and 480 in the source).
PlanWidth == 10
PlanHeight == 0

\* The designer is explored in two kinds of session, each with its own bounds.
\* A sensing session places sensors in a small plan:
\* longest rooms_list, rooms ever created, longest sensors_list and doors_list, rooms
\* with people or a breach, ticks that move a room level since the fields were
\* initialised, and the number of such ticks after which the plan is still edited.
SensingMaxRooms == 1
SensingMaxRoomIds == 1
SensingMaxSensors == 1
SensingMaxDoors == 0
SensingMaxHazards == 1
SensingMaxTicks == 3
SensingMaxEditTicks == 0
\* An atmosphere session joins rooms by doors, puts people and breaches into them and
\* lets the air move; it places no sensors.
AirMaxRooms == 2
AirMaxRoomIds == 2
AirMaxSensors == 0
AirMaxDoors == 1
AirMaxHazards == 1
AirMaxTicks == 2
AirMaxEditTicks == 0
\* The colony of better-sample.py: longest rooms and doors lists, breaches added,
\* the largest population set, the simulated hours run, and the simulated hour up to
\* which rooms, doors and breaches are still added.
ColonyMaxRooms == 2
ColonyMaxDoors == 1
ColonyMaxBreaches == 1
ColonyMaxPopulation == 1
ColonyMaxHours == 3
TypedMaxRooms == 1
TypedMaxSensors == 1
ThreadMaxThreads == 2
ThreadMaxHours == 1
ThreadMaxSensors == 2
ColonyMaxBuildHours == 0

\* ----------------------------------------------------- fixed-point numbers
O2Scale == 360 * 1000
CO2Scale == 6 * 10

Max(a, b) == IF a >= b THEN a ELSE b
Min(a, b) == IF a <= b THEN a ELSE b
Abs(a) == IF a >= 0 THEN a ELSE -a
RatMul(r, s) == <<r[1] * s[1], r[2] * s[2]>>
\* value * rate, rounded down to a whole unit
Scaled(value, rate) == (value * rate[1]) \div rate[2]
SetMin(S) == CHOOSE x \in S : \A y \in S : x <= y
SetMax(S) == CHOOSE x \in S : \A y \in S : x >= y

\* a sensor that was never read holds None; readings are >= 0, so -1 stands for it
NoReading == 0 - 1
\* room ids start at 0, so -1 stands for "no room" (selected_room_obj, temp_door_room1_id)
NoneId == 0 - 1

\* ------------------------------------------------- idpCreateHome constants
NORMAL_O2_PERCENTAGE == 21 * O2Scale
NORMAL_CO2_PPM == 400 * CO2Scale
MARS_O2_PERCENTAGE == (13 * O2Scale) \div 100
MARS_CO2_PPM == 95 * 10000 * CO2Scale
HUMAN_O2_CONSUMPTION_PER_HOUR_PERSON == <<35 * O2Scale, 1000>>
HUMAN_CO2_PRODUCTION_PPM_PER_HOUR_PERSON == <<42 * 10 * CO2Scale, 1>>
SIM_DT_HOURS == <<1, 10 * 36>>
CELL_SIZE == 10
AXIS_MARGIN == 30
CANVAS_WIDTH == AXIS_MARGIN + PlanWidth + CELL_SIZE
CANVAS_HEIGHT == AXIS_MARGIN + PlanHeight + CELL_SIZE
SENSOR_DRAW_RADIUS_PIXELS == (CELL_SIZE * 40) \div 100
GP_UPDATE_EVERY_N_FRAMES == 3
DEFAULT_BREACH_FLOW_RATE_PER_HOUR == <<1, 10>>
DOOR_WIDTH_PIXELS == (CELL_SIZE * 8) \div 10
DOOR_FLOW_RATE_OPEN_PER_HOUR == <<2, 10>>
DOOR_FLOW_RATE_CLOSED_PER_HOUR == <<5, 1000>>

Gases == {"O2", "CO2"}
Designer == "idpCreateHome.py"
Colony == "better-sample.py"

\* What the user does in a session of each kind: the tools picked (the circle tool is
\* left on the shelf), the canvas points clicked, the values the population spinbox
\* (0..20) and the breach scale (0.0..1.0, here in tenths) are set to, the gas views
\* asked for, the tools the simulation is started from, and whether the regression
\* library was found (idpCreateHome.py sets SKLEARN_AVAILABLE to True, integrated.py
\* sets it by whether the import succeeded).  Rooms and sensors are not dragged.
SensingSession ==
    [MaxRooms |-> SensingMaxRooms, MaxRoomIds |-> SensingMaxRoomIds,
     MaxSensors |-> SensingMaxSensors, MaxDoors |-> SensingMaxDoors,
     MaxHazards |-> SensingMaxHazards, MaxTicks |-> SensingMaxTicks,
     MaxEditTicks |-> SensingMaxEditTicks,
     Modes |-> {"select", "rectangle", "add_sensor"},
     ClickPoints |-> {<<40, 30>>},
     PopulationChoices |-> {0, 2}, BreachChoices |-> {0},
     Views |-> Gases, StartModes |-> {"select"}, Libraries |-> BOOLEAN, RoomTypes |-> {}]
AirSession ==
    [MaxRooms |-> AirMaxRooms, MaxRoomIds |-> AirMaxRoomIds,
     MaxSensors |-> AirMaxSensors, MaxDoors |-> AirMaxDoors,
     MaxHazards |-> AirMaxHazards, MaxTicks |-> AirMaxTicks,
     MaxEditTicks |-> AirMaxEditTicks,
     Modes |-> {"select", "rectangle", "add_door"},
     ClickPoints |-> {<<25, 30>>, <<40, 30>>},
     PopulationChoices |-> {0, 2}, BreachChoices |-> {0, 10},
     Views |-> {"O2"}, StartModes |-> {"select", "add_door"}, Libraries |-> {TRUE},
     RoomTypes |-> {}]
\* A session of the designer as integrated.py extends it: rooms carry a room type, drawn
\* as LIVING_QUARTERS and changed from the room-type menu.  The simulation is not
\* started, no room is deleted, and the leak tool is left on the shelf; what is left of
\* the handlers is what they are in idpCreateHome.py.
TypedSession ==
    [MaxRooms |-> TypedMaxRooms, MaxRoomIds |-> TypedMaxRooms,
     MaxSensors |-> TypedMaxSensors, MaxDoors |-> 0,
     MaxHazards |-> 0, MaxTicks |-> 0, MaxEditTicks |-> 0,
     Modes |-> {"select", "rectangle", "add_sensor"},
     ClickPoints |-> {<<25, 30>>, <<32, 30>>, <<34, 30>>},
     PopulationChoices |-> {0}, BreachChoices |-> {0},
     Views |-> Gases, StartModes |-> {"select"}, Libraries |-> {TRUE},
     RoomTypes |-> {"LIVING_QUARTERS", "NONE"}]

VARIABLES
    \* ---- idpCreateHome.DrawingApp
    SKLEARN_AVAILABLE, mode_var, current_mode, rooms_list, room_id_counter, selected_room_obj,
    sensors_list, selected_sensor_obj, doors_list, selected_door_obj, temp_door_room1_id,
    o2_field_ground_truth, co2_field_ground_truth, map_mask, sim_running, sim_job_id,
    gp_model_o2, gp_model_co2, gp_reconstructed_field, gp_update_counter, current_gas_view,
    current_gp_display_min, current_gp_display_max,
    \* where toggle_simulation stands: "idle", or "first_tick" between its initial
    \* prediction and its synchronous call of run_simulation_step
    pc,
    \* the shape (rows, columns) of the array gp_reconstructed_field holds
    gp_field_shape,
    \* how many callbacks registered with after() have neither fired nor been cancelled
    after_jobs,
    \* ---- integrated.DrawingApp only: colony_size, o2_profile and sim_time_hours, the
    \* canvas size of the last <Configure> event (the globals CANVAS_WIDTH and
    \* CANVAS_HEIGHT) and the grid shape (sim_grid_rows, sim_grid_cols) computed from it
    habitat,
    \* the suffix update_gp_model_and_predict last put into the status line
    status_suffix,
    \* ---- read by the properties only: the suffix the last update replaced, and the
    \* ticks that moved a room level since the gas fields were last initialised
    previous_suffix, ticks_since_init,
    \* ---- better-sample.ColonySimulation: the object create_sample_colony calls sim
    sim,
    \* ---- which of the two scripts was launched
    program

designVars == <<mode_var, current_mode, rooms_list, room_id_counter, selected_room_obj,
                sensors_list, selected_sensor_obj, doors_list, selected_door_obj,
                temp_door_room1_id>>
fieldVars == <<o2_field_ground_truth, co2_field_ground_truth, map_mask>>
gpVars == <<gp_model_o2, gp_model_co2, gp_reconstructed_field, current_gp_display_min,
            current_gp_display_max, gp_field_shape>>
runVars == <<sim_running, sim_job_id, gp_update_counter, pc, after_jobs, habitat>>

appVars == <<SKLEARN_AVAILABLE, designVars, fieldVars, gpVars, runVars, current_gas_view,
             status_suffix, previous_suffix, ticks_since_init>>

vars == <<appVars, sim, program>>

\* -------------------------------------------------------------- geometry
sim_grid_rows == (CANVAS_HEIGHT - AXIS_MARGIN) \div CELL_SIZE
sim_grid_cols == (CANVAS_WIDTH - AXIS_MARGIN) \div CELL_SIZE
Cells == (0 .. sim_grid_rows - 1) \X (0 .. sim_grid_cols - 1)

\* centre of grid cell <<row, col>> on the canvas, as <<x, y>>
SimToCanvasCoordsCenter(cell) ==
    <<AXIS_MARGIN + cell[2] * CELL_SIZE + CELL_SIZE \div 2,
      AXIS_MARGIN + cell[1] * CELL_SIZE + CELL_SIZE \div 2>>

\* the grid cell of a canvas point, or <<>> (None, None) when the point is off the grid
CanvasToSimCoords(p) ==
    IF p[1] < AXIS_MARGIN \/ p[2] < AXIS_MARGIN THEN <<>>
    ELSE LET col == (p[1] - AXIS_MARGIN) \div CELL_SIZE
             row == (p[2] - AXIS_MARGIN) \div CELL_SIZE
         IN IF row >= 0 /\ row < sim_grid_rows /\ col >= 0 /\ col < sim_grid_cols
            THEN <<row, col>> ELSE <<>>

RoomRectangle(id, p) ==
    [id |-> id, kind |-> "rect", x |-> p[1], y |-> p[2],
     width |-> CELL_SIZE * 4, height |-> CELL_SIZE * 3, radius |-> 0,
     o2_level |-> NORMAL_O2_PERCENTAGE, co2_level |-> NORMAL_CO2_PPM,
     population |-> 0, breach_level |-> 0]

RoomContainsPoint(room, p) ==
    IF room.kind = "rect"
    THEN room.x <= p[1] /\ p[1] <= room.x + room.width
         /\ room.y <= p[2] /\ p[2] <= room.y + room.height
    ELSE (p[1] - room.x) * (p[1] - room.x) + (p[2] - room.y) * (p[2] - room.y)
            <= room.radius * room.radius

\* pixel area; pi is taken as 314/100
CalculateAreaPixels(room) ==
    IF room.kind = "rect" THEN room.width * room.height
    ELSE (314 * room.radius * room.radius) \div 100

GetVolumeLiters(room) ==
    LET area_px2 == CalculateAreaPixels(room)
    IN IF area_px2 = 0 THEN 1000
       ELSE (area_px2 * 25 * 1000) \div (CELL_SIZE * CELL_SIZE * 10)

SensorContainsPoint(sensor, p) ==
    (p[1] - sensor.x) * (p[1] - sensor.x) + (p[2] - sensor.y) * (p[2] - sensor.y)
        <= SENSOR_DRAW_RADIUS_PIXELS * SENSOR_DRAW_RADIUS_PIXELS

DoorContainsPoint(door, p) ==
    LET half_width == DOOR_WIDTH_PIXELS \div 2
    IN /\ door.position[1] - half_width <= p[1] /\ p[1] <= door.position[1] + half_width
       /\ door.position[2] - half_width <= p[2] /\ p[2] <= door.position[2] + half_width

\* the first / last of the indices at which a loop over a list finds what it looks for,
\* 0 when it finds nothing
FirstIndex(found) == IF found = {} THEN 0 ELSE SetMin(found)
LastIndex(found) == IF found = {} THEN 0 ELSE SetMax(found)

\* get_room_by_id: index of the first room with that id, 0 for None
GetRoomById(rooms, room_id) ==
    LET HasId(r) == r.id = room_id IN FirstIndex({i \in 1 .. Len(rooms) : HasId(rooms[i])})

\* the first room in iteration order that contains the point, 0 for none
FirstRoomAt(rooms, p) ==
    LET Holds(r) == RoomContainsPoint(r, p) IN FirstIndex({i \in 1 .. Len(rooms) : Holds(rooms[i])})

\* integrated.py: a room of type NONE is passed over by the mask and by the sensors; the
\* rooms of idpCreateHome.py have no type and are never passed over.
HasType(room) == "room_type" \in DOMAIN room => room.room_type # "NONE"
FirstTypedRoomAt(rooms, p) ==
    FirstIndex({i \in 1 .. Len(rooms) : RoomContainsPoint(rooms[i], p) /\ HasType(rooms[i])})
\* the rectangle the rectangle tool draws in a session
NewRoomRectangle(b, id, p) ==
    IF b.RoomTypes = {} THEN RoomRectangle(id, p)
    ELSE RoomRectangle(id, p) @@ [room_type |-> "LIVING_QUARTERS"]

RemoveAt(seq, i) == [j \in 1 .. Len(seq) - 1 |-> IF j < i THEN seq[j] ELSE seq[j + 1]]

\* ------------------------------------------------------- sensors and doors
\* variances are held in hundredths
SENSOR_DEFAULT_O2_VARIANCE == 50
SENSOR_DEFAULT_CO2_VARIANCE == 2000
Sensor(p) ==
    [x |-> p[1], y |-> p[2], o2_variance |-> SENSOR_DEFAULT_O2_VARIANCE,
     co2_variance |-> SENSOR_DEFAULT_CO2_VARIANCE,
     last_o2_reading |-> NoReading, last_co2_reading |-> NoReading]

Door(room1_id, room2_id, p) ==
    [room1_id |-> room1_id, room2_id |-> room2_id, position |-> p, is_open |-> TRUE]

ToggleState(door) == [door EXCEPT !.is_open = ~door.is_open]

\* one draw of np.random.normal(true_value, sqrt(variance)) is the true value plus or
\* minus NoiseStep: half a percent of O2, five ppm of CO2.  NoiseDraws are the three draws
\* made for one sensor in one update: for the fit, for last_o2_reading and for
\* last_co2_reading
NoiseDraws == {<<1, 0 - 1, 1>>}
NoiseStep(gas) == IF gas = "O2" THEN O2Scale \div 2 ELSE 5 * CO2Scale
\* fault variant of NoisyReading: the draw is passed on as it comes
NoisyReadingUnfloored(gas, true_value, noise) == true_value + noise * NoiseStep(gas)
NoisyReading(gas, true_value, noise) == Max(0, true_value + noise * NoiseStep(gas))

\* math.sqrt of a number held in hundredths, to the hundredth below
Sqrt(x) == CHOOSE root \in 0 .. 10 * x + 10 : root * root <= 100 * x /\ (root + 1) * (root + 1) > 100 * x
\* the scale (standard deviation) read_gas_levels hands to np.random.normal for a gas
ReadGasLevelsScale(sensor, gas) ==
    Sqrt(IF gas = "O2" THEN sensor.o2_variance ELSE sensor.co2_variance)

\* Sensor.read_gas_levels
ReadGasLevels(sensor, true_o2, true_co2, noise_o2, noise_co2) ==
    [sensor EXCEPT !.last_o2_reading = NoisyReading("O2", true_o2, noise_o2),
                   !.last_co2_reading = NoisyReading("CO2", true_co2, noise_co2)]

\* what read_gas_levels returns, given the sensor as it has left it
ReturnedGasLevels(sensor) == <<sensor.last_o2_reading, sensor.last_co2_reading>>

\* ------------------------------------------------------------- gas fields
MarsLevel(gas) == IF gas = "O2" THEN MARS_O2_PERCENTAGE ELSE MARS_CO2_PPM
RoomLevel(room, gas) == IF gas = "O2" THEN room.o2_level ELSE room.co2_level

UpdateMapMask(rooms) ==
    [c \in Cells |-> IF FirstTypedRoomAt(rooms, SimToCanvasCoordsCenter(c)) # 0 THEN 1 ELSE 0]

\* initialize_gas_fields: every room back to the normal atmosphere, Mars outside the rooms
InitializeGasFields(rooms) ==
    LET reset == [i \in 1 .. Len(rooms) |->
                    [rooms[i] EXCEPT !.o2_level = NORMAL_O2_PERCENTAGE,
                                     !.co2_level = NORMAL_CO2_PPM]]
        Holds(c) == LET At(r) == RoomContainsPoint(r, SimToCanvasCoordsCenter(c))
                    IN LastIndex({i \in 1 .. Len(reset) : At(reset[i])})
    IN [rooms |-> reset,
        o2 |-> [c \in Cells |-> IF Holds(c) = 0 THEN MARS_O2_PERCENTAGE
                                ELSE reset[Holds(c)].o2_level],
        co2 |-> [c \in Cells |-> IF Holds(c) = 0 THEN MARS_CO2_PPM
                                 ELSE reset[Holds(c)].co2_level],
        mask |-> UpdateMapMask(rooms)]

\* prepare_visualization_map_and_fields: the mask always, the fields only while stopped
PrepareVisualizationMapAndFields(rooms, running) ==
    IF ~running THEN InitializeGasFields(rooms)
    ELSE [rooms |-> rooms, o2 |-> o2_field_ground_truth, co2 |-> co2_field_ground_truth,
          mask |-> UpdateMapMask(rooms)]

\* fault variant of GroundTruthFromRooms: the whole grid takes the air of the first room
GroundTruthUnmasked(rooms, mask, gas) ==
    [c \in Cells |-> IF rooms # <<>> THEN RoomLevel(rooms[1], gas) ELSE MarsLevel(gas)]
\* step 2 of run_simulation_step: the grids rebuilt from the room levels
GroundTruthFromRooms(rooms, mask, gas) ==
    [c \in Cells |->
        IF mask[c] = 1 /\ FirstRoomAt(rooms, SimToCanvasCoordsCenter(c)) # 0
        THEN RoomLevel(rooms[FirstRoomAt(rooms, SimToCanvasCoordsCenter(c))], gas)
        ELSE MarsLevel(gas)]

\* --------------------------------------------------- regression estimator
GaussianProcessRegressor == [present |-> TRUE, fitted |-> FALSE, X |-> <<>>, y |-> <<>>]
NoModel == [present |-> FALSE, fitted |-> FALSE, X |-> <<>>, y |-> <<>>]
Fitted(X, y) == [present |-> TRUE, fitted |-> TRUE, X |-> X, y |-> y]

\* the status suffixes update_gp_model_and_predict puts into the status line
Unfitted == "unfitted"
StatusFitted == "GP"
StatusNoSklearn == "No Sklearn - Showing Truth"
StatusNoSensors == "No Sensors - Showing Truth"
StatusGpError == "GP Error - Showing Truth"

\* fault variant of TrueValueAtSensor: outside the rooms the air is taken to be Mars
TrueValueMarsOutside(sensor, gas, o2f, co2f, rooms) ==
    LET room == FirstTypedRoomAt(rooms, <<sensor.x, sensor.y>>)
    IN IF room # 0 THEN RoomLevel(rooms[room], gas) ELSE MarsLevel(gas)

\* the value a sensor stands in: its room's level, else its grid cell, else Mars
TrueValueAtSensor(sensor, gas, o2f, co2f, rooms) ==
    LET p == <<sensor.x, sensor.y>>
        room == FirstTypedRoomAt(rooms, p)
        cell == CanvasToSimCoords(p)
    IN IF room # 0 THEN RoomLevel(rooms[room], gas)
       ELSE IF cell # <<>> THEN (IF gas = "O2" THEN o2f[cell] ELSE co2f[cell])
       ELSE MarsLevel(gas)

\* collect_sensor_data_for_gp with the draws noise[i] = <<fit, o2, co2>> of sensor i
CollectSensorDataForGp(gas, o2f, co2f, rooms, sensors, noise) ==
    [X |-> [i \in 1 .. Len(sensors) |-> <<sensors[i].x, sensors[i].y>>],
     y |-> [i \in 1 .. Len(sensors) |->
              NoisyReading(gas, TrueValueAtSensor(sensors[i], gas, o2f, co2f, rooms),
                           noise[i][1])],
     sensors |-> [i \in 1 .. Len(sensors) |->
                    ReadGasLevels(sensors[i],
                                  TrueValueAtSensor(sensors[i], "O2", o2f, co2f, rooms),
                                  TrueValueAtSensor(sensors[i], "CO2", o2f, co2f, rooms),
                                  noise[i][2], noise[i][3])]]

MinClip == 0
MaxClip(gas) == IF gas = "O2" THEN (NORMAL_O2_PERCENTAGE * 15) \div 10
                ELSE (MARS_CO2_PPM * 11) \div 10
\* fault variant of Clip: the upper limit is not applied
ClipBelowOnly(field, lo, hi) == [c \in Cells |-> Max(field[c], lo)]
Clip(field, lo, hi) == [c \in Cells |-> Min(Max(field[c], lo), hi)]

\* what predict() may hand back for the grid before clipping: a flat field at the first
\* reading, and a field that runs from below the plausible range to above it
RawPredictions(gas, y) ==
    {[c \in Cells |-> y[1]],
     [c \in Cells |-> IF c[2] = 0 THEN 0 - NoiseStep(gas) ELSE 2 * MaxClip(gas)]}

\* fault variant of DisplayScale: the range is the minimum and maximum, guard or no guard
DisplayScaleUnguarded(field, gas) ==
    <<SetMin({field[c] : c \in Cells}), SetMax({field[c] : c \in Cells})>>
\* the display range derived from the reconstructed field, with its minimum-span guard
DisplayScale(field, gas) ==
    LET lo == SetMin({field[c] : c \in Cells})
        hi == SetMax({field[c] : c \in Cells})
        tenth == (IF gas = "O2" THEN O2Scale ELSE CO2Scale) \div 10
        span == IF gas = "O2" THEN O2Scale ELSE 100 * CO2Scale
        lo2 == Max(0, lo - Abs(lo) \div 2 - tenth)
        hi2 == lo + Abs(lo) \div 2 + tenth
        hundredth == ((IF gas = "O2" THEN O2Scale ELSE CO2Scale) + 99) \div 100
    IN IF hi <= lo
       THEN (IF Abs(hi2 - lo2) < hundredth THEN <<lo2, lo2 + span>> ELSE <<lo2, hi2>>)
       ELSE <<lo, hi>>

\* --------------------------------------------------------------- Init
\* DrawingApp.__init__ (the other script's simulation is not constructed)
DrawingApp(b) ==
    /\ SKLEARN_AVAILABLE \in b.Libraries
    /\ mode_var = "select"
    /\ current_mode = "select"
    /\ rooms_list = <<>>
    /\ room_id_counter = 0
    /\ selected_room_obj = NoneId
    /\ sensors_list = <<>>
    /\ selected_sensor_obj = 0
    /\ doors_list = <<>>
    /\ selected_door_obj = 0
    /\ temp_door_room1_id = NoneId
    /\ o2_field_ground_truth = InitializeGasFields(<<>>).o2
    /\ co2_field_ground_truth = InitializeGasFields(<<>>).co2
    /\ map_mask = InitializeGasFields(<<>>).mask
    /\ sim_running = FALSE
    /\ sim_job_id = FALSE
    /\ gp_model_o2 = IF SKLEARN_AVAILABLE THEN GaussianProcessRegressor ELSE NoModel
    /\ gp_model_co2 = IF SKLEARN_AVAILABLE THEN GaussianProcessRegressor ELSE NoModel
    /\ gp_reconstructed_field = [c \in Cells |-> 0]
    /\ gp_field_shape = <<sim_grid_rows, sim_grid_cols>>
    /\ after_jobs = 0
    /\ habitat = [colony_size |-> 50, o2_profile |-> <<>>, sim_time_hours |-> 0,
                  canvas |-> <<CANVAS_WIDTH, CANVAS_HEIGHT>>,
                  sim_grid |-> <<sim_grid_rows, sim_grid_cols>>]
    /\ gp_update_counter = 0
    /\ current_gas_view = "O2"
    /\ current_gp_display_min = 0
    /\ current_gp_display_max = NORMAL_O2_PERCENTAGE
    /\ pc = "idle"
    /\ status_suffix = Unfitted
    /\ previous_suffix = Unfitted
    /\ ticks_since_init = 0

\* ColonySimulation.__init__
\* threads holds, for every thread start_simulation has started, where it stands in
\* run_simulation_thread and the dt_sim of its turn
ColonySimulation ==
    [rooms |-> <<>>, doors |-> <<>>, time_step |-> 0, room_id_counter |-> 1,
     running |-> FALSE, threads |-> <<>>]

Init(b) ==
    /\ program = Designer
    /\ DrawingApp(b)
    /\ sim = ColonySimulation

\* ------------------------------------------- update_gp_model_and_predict
\* The status line is written by nearly every handler and read by none; what is kept of
\* it is the suffix this function puts into it (status_suffix, which is about the viewed
\* gas) and the suffix it replaced (previous_suffix).
\* fault variant of ShowField: an error suffix, once shown, is never replaced
ShowFieldStickyError(gas, field, suffix) ==
    /\ gp_reconstructed_field' = field
    /\ gp_field_shape' = habitat.sim_grid
    /\ current_gp_display_min' = DisplayScale(field, gas)[1]
    /\ current_gp_display_max' = DisplayScale(field, gas)[2]
    /\ status_suffix' = IF status_suffix = "GP Error - Showing Truth"
                        THEN status_suffix ELSE suffix
    /\ previous_suffix' = status_suffix

ShowField(gas, field, suffix) ==
    /\ gp_reconstructed_field' = field
    /\ gp_field_shape' = habitat.sim_grid
    /\ current_gp_display_min' = DisplayScale(field, gas)[1]
    /\ current_gp_display_max' = DisplayScale(field, gas)[2]
    /\ status_suffix' = suffix
    /\ previous_suffix' = status_suffix

\* fault variant of SetModel: one model object behind both names
SetBothModels(gas, m) == gp_model_o2' = m /\ gp_model_co2' = m

\* current_gp_model is the model of the viewed gas; the other model is not touched
SetModel(gas, m) ==
    IF gas = "O2" THEN gp_model_o2' = m /\ UNCHANGED gp_model_co2
    ELSE gp_model_co2' = m /\ UNCHANGED gp_model_o2

\* fit() and predict() are the library's.  Either they return some grid, which is
\* clipped and shown ...
FitAndPredict(gas, data) ==
    \E raw \in RawPredictions(gas, data.y) :
        /\ SetModel(gas, Fitted(data.X, data.y))
        /\ ShowField(gas, Clip(raw, MinClip, MaxClip(gas)), StatusFitted)

\* fault variant of FitRaised: the except clause leaves the stale reconstruction in place
FitRaisedKeepingField(gas, active_ground_truth_field, data) ==
    \E m \in {IF gas = "O2" THEN gp_model_o2 ELSE gp_model_co2, Fitted(data.X, data.y)} :
        /\ SetModel(gas, m)
        /\ ShowField(gas, gp_reconstructed_field, StatusGpError)

\* ... or one of them raises, leaving the model as it was or holding the new training
\* data, and the except clause shows the ground truth.
FitRaised(gas, active_ground_truth_field, data) ==
    \E m \in {IF gas = "O2" THEN gp_model_o2 ELSE gp_model_co2, Fitted(data.X, data.y)} :
        /\ SetModel(gas, m)
        /\ ShowField(gas, active_ground_truth_field, StatusGpError)

\* The estimator is run for the viewed gas on the given grids and rooms.  (With a sensor
\* in sensors_list the two arrays collect_sensor_data_for_gp returns are never empty, so
\* the "No Sensor Data" branch is not taken.)
UpdateGpModelAndPredict(gas, o2f, co2f, rooms) ==
    LET current_gp_model == IF gas = "O2" THEN gp_model_o2 ELSE gp_model_co2
        active_ground_truth_field == IF gas = "O2" THEN o2f ELSE co2f
    IN IF ~SKLEARN_AVAILABLE \/ ~current_gp_model.present
       THEN /\ ShowField(gas, active_ground_truth_field, StatusNoSklearn)
            /\ UNCHANGED <<gp_model_o2, gp_model_co2, sensors_list>>
       ELSE IF sensors_list = <<>>
       THEN /\ ShowField(gas, active_ground_truth_field, StatusNoSensors)
            /\ UNCHANGED <<gp_model_o2, gp_model_co2, sensors_list>>
       ELSE \E noise \in [1 .. Len(sensors_list) -> NoiseDraws] :
              LET data == CollectSensorDataForGp(gas, o2f, co2f, rooms, sensors_list, noise)
              IN /\ sensors_list' = data.sensors
                 /\ \/ FitAndPredict(gas, data)
                    \/ FitRaised(gas, active_ground_truth_field, data)

\* ------------------------------------------------- what the bounds measure
Hazards(rooms) ==
    Cardinality({i \in 1 .. Len(rooms) : rooms[i].population > 0})
    + Cardinality({i \in 1 .. Len(rooms) : rooms[i].breach_level > 0})
\* the tools, the keys and the canvas are left alone while stopped on air that has moved
Editable(b) == sim_running \/ ticks_since_init <= b.MaxEditTicks

\* ------------------------------------------------------ editing handlers
\* what every handler that never runs the estimator or the clock leaves alone
EditFrame ==
    UNCHANGED <<SKLEARN_AVAILABLE, gpVars, runVars, current_gas_view, status_suffix,
                previous_suffix, sim,
                program>>

\* set_current_mode after mode_var was set to `requested`, as the values it leaves behind
SetCurrentModeOutcome(requested, old_mode, sel_room, sel_sensor, temp) ==
    LET forced == sim_running /\ requested # "select"
        mode == IF forced THEN "select" ELSE requested
        leaving == old_mode = "select" /\ mode # "select"
        cancelled == old_mode = "add_door" /\ temp # NoneId
    IN [mode_var |-> mode, current_mode |-> mode,
        selected_room_obj |-> IF leaving THEN NoneId ELSE sel_room,
        selected_sensor_obj |-> IF leaving THEN 0 ELSE sel_sensor,
        temp_door_room1_id |-> IF mode = "add_door" \/ cancelled THEN NoneId ELSE temp]

ApplyModeOutcome(out) ==
    /\ mode_var' = out.mode_var
    /\ current_mode' = out.current_mode
    /\ selected_room_obj' = out.selected_room_obj
    /\ selected_sensor_obj' = out.selected_sensor_obj
    /\ temp_door_room1_id' = out.temp_door_room1_id

\* a mode radio button is pressed; all but "select" are disabled while the simulation runs
SetCurrentMode(b, requested) ==
    /\ program = Designer /\ pc = "idle"
    /\ Editable(b)
    /\ ~sim_running \/ requested = "select"
    /\ ApplyModeOutcome(SetCurrentModeOutcome(requested, current_mode, selected_room_obj,
                                              selected_sensor_obj, temp_door_room1_id))
    /\ UNCHANGED <<rooms_list, room_id_counter, sensors_list, doors_list, selected_door_obj,
                   fieldVars, ticks_since_init>>
    /\ EditFrame

\* add_new_room, reached from handle_mouse_down while stopped
AddNewRoom(b, room_obj) ==
    LET rooms == Append(rooms_list, room_obj)
        prepared == PrepareVisualizationMapAndFields(rooms, sim_running)
    IN /\ Len(rooms_list) < b.MaxRooms
       /\ room_id_counter < b.MaxRoomIds
       /\ rooms_list' = prepared.rooms
       /\ room_id_counter' = room_id_counter + 1
       /\ ApplyModeOutcome(SetCurrentModeOutcome("select", current_mode, room_obj.id, 0,
                                                 temp_door_room1_id))
       /\ o2_field_ground_truth' = prepared.o2
       /\ co2_field_ground_truth' = prepared.co2
       /\ map_mask' = prepared.mask
       /\ ticks_since_init' = 0
       /\ UNCHANGED <<sensors_list, doors_list, selected_door_obj>>

HandleAddSensorClick(b, p) ==
    /\ Len(sensors_list) < b.MaxSensors
    /\ sensors_list' = Append(sensors_list, Sensor(p))
    /\ ApplyModeOutcome(SetCurrentModeOutcome("select", current_mode, NoneId,
                                              Len(sensors_list) + 1, temp_door_room1_id))
    /\ UNCHANGED <<rooms_list, room_id_counter, doors_list, selected_door_obj, fieldVars,
                   ticks_since_init>>

HandleAddDoorClick(b, p) ==
    LET clicked_room == FirstRoomAt(rooms_list, p)
    IN IF clicked_room = 0
       THEN UNCHANGED <<designVars, fieldVars, ticks_since_init>>
       ELSE IF temp_door_room1_id = NoneId
       THEN /\ temp_door_room1_id' = rooms_list[clicked_room].id
            /\ UNCHANGED <<mode_var, current_mode, rooms_list, room_id_counter,
                           selected_room_obj, sensors_list, selected_sensor_obj, doors_list,
                           selected_door_obj, fieldVars, ticks_since_init>>
       ELSE /\ Len(doors_list) < b.MaxDoors
            /\ doors_list' = Append(doors_list,
                                    Door(temp_door_room1_id, rooms_list[clicked_room].id, p))
            /\ ApplyModeOutcome(SetCurrentModeOutcome("select", current_mode,
                                                      selected_room_obj, selected_sensor_obj,
                                                      NoneId))
            /\ UNCHANGED <<rooms_list, room_id_counter, sensors_list, selected_door_obj,
                           fieldVars, ticks_since_init>>

\* a click in "select" mode while stopped: sensor before door before room
SelectClick(p) ==
    LET SensorAt(s) == SensorContainsPoint(s, p)
        DoorAt(d) == DoorContainsPoint(d, p)
        RoomAt(r) == RoomContainsPoint(r, p)
        sel_room == GetRoomById(rooms_list, selected_room_obj)
        sensor_hit == IF selected_sensor_obj # 0 /\ SensorAt(sensors_list[selected_sensor_obj])
                      THEN selected_sensor_obj ELSE LastIndex({i \in 1 .. Len(sensors_list) : SensorAt(sensors_list[i])})
        door_hit == LastIndex({i \in 1 .. Len(doors_list) : DoorAt(doors_list[i])})
        room_hit == IF sel_room # 0 /\ RoomAt(rooms_list[sel_room])
                    THEN sel_room ELSE LastIndex({i \in 1 .. Len(rooms_list) : RoomAt(rooms_list[i])})
    IN /\ selected_sensor_obj' = sensor_hit
       /\ selected_door_obj' = IF sensor_hit = 0 THEN door_hit ELSE 0
       /\ selected_room_obj' = IF sensor_hit = 0 /\ door_hit = 0 /\ room_hit # 0
                               THEN rooms_list[room_hit].id ELSE NoneId
       /\ doors_list' = IF sensor_hit = 0 /\ door_hit # 0
                        THEN [doors_list EXCEPT ![door_hit] = ToggleState(@)]
                        ELSE doors_list
       /\ UNCHANGED <<mode_var, current_mode, rooms_list, room_id_counter, sensors_list,
                      temp_door_room1_id, fieldVars, ticks_since_init>>

\* the branch of handle_mouse_down taken while the simulation runs: the doors it leaves
RunningMouseDown(doors, mode, p) ==
    LET door_hit == LastIndex({i \in 1 .. Len(doors) : DoorContainsPoint(doors[i], p)})
    IN IF mode = "select" /\ door_hit # 0
       THEN [doors EXCEPT ![door_hit] = ToggleState(@)]
       ELSE doors

HandleMouseDown(b, p) ==
    /\ program = Designer /\ pc = "idle"
    /\ Editable(b)
    /\ EditFrame
    /\ IF sim_running
       THEN /\ doors_list' = RunningMouseDown(doors_list, current_mode, p)
            /\ UNCHANGED <<mode_var, current_mode, rooms_list, room_id_counter,
                           selected_room_obj, sensors_list, selected_sensor_obj,
                           selected_door_obj, temp_door_room1_id, fieldVars,
                           ticks_since_init>>
       ELSE CASE current_mode = "add_sensor" -> HandleAddSensorClick(b, p)
              [] current_mode = "add_door" -> HandleAddDoorClick(b, p)
              [] current_mode = "select" -> SelectClick(p)
              [] current_mode = "rectangle" ->
                     AddNewRoom(b, NewRoomRectangle(b, room_id_counter, p))

\* where a selected door ends up when only the doors passing Keep stay in the list:
\* its new index, or -1 for a door object that is no longer listed
RemapSelectedDoor(kept, selected) ==
    IF selected <= 0 THEN selected
    ELSE IF selected \notin kept THEN 0 - 1
    ELSE Cardinality({j \in kept : j <= selected})

\* fault variant of DoorsToRemove: only the doors that start at the room
DoorsToRemoveFirstSide(doors, room_id) ==
    {j \in 1 .. Len(doors) : doors[j].room1_id = room_id}
\* doors_to_remove of delete_selected_item, as places in the list
DoorsToRemove(doors, room_id) ==
    {j \in 1 .. Len(doors) : doors[j].room1_id = room_id \/ doors[j].room2_id = room_id}

DeleteSelectedItem(b) ==
    /\ program = Designer /\ pc = "idle"
    /\ Editable(b)
    /\ EditFrame
    /\ IF sim_running
       THEN UNCHANGED <<designVars, fieldVars, ticks_since_init>>
       ELSE IF selected_room_obj # NoneId
       THEN LET Keep(d) == \A j \in DoorsToRemove(doors_list, selected_room_obj) :
                               doors_list[j] # d
                Stays(r) == r.id # selected_room_obj
                prepared == PrepareVisualizationMapAndFields(SelectSeq(rooms_list, Stays),
                                                             sim_running)
            IN /\ doors_list' = SelectSeq(doors_list, Keep)
               /\ selected_door_obj' = RemapSelectedDoor({j \in 1 .. Len(doors_list) : Keep(doors_list[j])},
                                                         selected_door_obj)
               /\ rooms_list' = prepared.rooms
               /\ selected_room_obj' = NoneId
               /\ o2_field_ground_truth' = prepared.o2
               /\ co2_field_ground_truth' = prepared.co2
               /\ map_mask' = prepared.mask
               /\ ticks_since_init' = 0
               /\ UNCHANGED <<mode_var, current_mode, room_id_counter, sensors_list,
                              selected_sensor_obj, temp_door_room1_id>>
       ELSE IF selected_sensor_obj # 0
       THEN /\ sensors_list' = RemoveAt(sensors_list, selected_sensor_obj)
            /\ selected_sensor_obj' = 0
            /\ UNCHANGED <<mode_var, current_mode, rooms_list, room_id_counter,
                           selected_room_obj, doors_list, selected_door_obj,
                           temp_door_room1_id, fieldVars, ticks_since_init>>
       ELSE IF selected_door_obj # 0
       THEN /\ doors_list' = IF selected_door_obj > 0
                             THEN RemoveAt(doors_list, selected_door_obj) ELSE doors_list
            /\ selected_door_obj' = 0
            /\ UNCHANGED <<mode_var, current_mode, rooms_list, room_id_counter,
                           selected_room_obj, sensors_list, selected_sensor_obj,
                           temp_door_room1_id, fieldVars, ticks_since_init>>
       ELSE UNCHANGED <<designVars, fieldVars, ticks_since_init>>

ClearAllSensors(b) ==
    /\ program = Designer /\ pc = "idle"
    /\ Editable(b)
    /\ EditFrame
    /\ sensors_list' = IF sim_running THEN sensors_list ELSE <<>>
    /\ selected_sensor_obj' = IF sim_running THEN selected_sensor_obj ELSE 0
    /\ UNCHANGED <<mode_var, current_mode, rooms_list, room_id_counter, selected_room_obj,
                   doors_list, selected_door_obj, temp_door_room1_id, fieldVars,
                   ticks_since_init>>

\* fault variant of ClearAllDoors: the doors are cleared whether or not the simulation runs
ClearAllDoorsUnlocked(b) ==
    /\ program = Designer /\ pc = "idle"
    /\ Editable(b)
    /\ EditFrame
    /\ doors_list' = <<>>
    /\ selected_door_obj' = 0
    /\ UNCHANGED <<mode_var, current_mode, rooms_list, room_id_counter, selected_room_obj,
                   sensors_list, selected_sensor_obj, temp_door_room1_id, fieldVars,
                   ticks_since_init>>
ClearAllDoors(b) ==
    /\ program = Designer /\ pc = "idle"
    /\ Editable(b)
    /\ EditFrame
    /\ doors_list' = IF sim_running THEN doors_list ELSE <<>>
    /\ selected_door_obj' = IF sim_running THEN selected_door_obj ELSE 0
    /\ UNCHANGED <<mode_var, current_mode, rooms_list, room_id_counter, selected_room_obj,
                   sensors_list, selected_sensor_obj, temp_door_room1_id, fieldVars,
                   ticks_since_init>>

\* handle_mouse_drag and handle_mouse_up while the simulation runs (the only time the
\* user of these sessions drags): both return at their first line
HandleMouseDrag(b, p) ==
    /\ program = Designer /\ pc = "idle"
    /\ sim_running
    /\ p \in b.ClickPoints
    /\ UNCHANGED vars

HandleEscapeKey(b) ==
    /\ program = Designer /\ pc = "idle"
    /\ Editable(b)
    /\ EditFrame
    /\ UNCHANGED <<rooms_list, room_id_counter, sensors_list, doors_list, fieldVars,
                   ticks_since_init>>
    /\ IF sim_running
       THEN UNCHANGED <<mode_var, current_mode, selected_room_obj, selected_sensor_obj,
                        selected_door_obj, temp_door_room1_id>>
       ELSE IF current_mode = "add_door" /\ temp_door_room1_id # NoneId
       THEN /\ ApplyModeOutcome(SetCurrentModeOutcome("select", current_mode,
                                                      selected_room_obj, selected_sensor_obj,
                                                      NoneId))
            /\ UNCHANGED selected_door_obj
       ELSE /\ selected_room_obj' = NoneId
            /\ selected_sensor_obj' =
                    IF selected_room_obj # NoneId THEN selected_sensor_obj ELSE 0
            /\ selected_door_obj' =
                    IF selected_room_obj # NoneId \/ selected_sensor_obj # 0
                    THEN selected_door_obj ELSE 0
            /\ UNCHANGED <<mode_var, current_mode, temp_door_room1_id>>

\* The population spinbox and the breach scale act on the selected room.  They are
\* disabled or hidden for as long as the simulation runs.
UpdateSelectedRoomPopulation(b, population) ==
    /\ program = Designer /\ pc = "idle"
    /\ ~sim_running
    /\ selected_room_obj # NoneId
    /\ EditFrame
    /\ rooms_list' = [i \in 1 .. Len(rooms_list) |->
                        IF rooms_list[i].id = selected_room_obj
                        THEN [rooms_list[i] EXCEPT !.population = population]
                        ELSE rooms_list[i]]
    /\ Hazards(rooms_list') <= b.MaxHazards
    /\ UNCHANGED <<mode_var, current_mode, room_id_counter, selected_room_obj, sensors_list,
                   selected_sensor_obj, doors_list, selected_door_obj, temp_door_room1_id,
                   fieldVars, ticks_since_init>>

UpdateSelectedRoomBreach(b, breach_level) ==
    /\ program = Designer /\ pc = "idle"
    /\ ~sim_running
    /\ selected_room_obj # NoneId
    /\ EditFrame
    /\ rooms_list' = [i \in 1 .. Len(rooms_list) |->
                        IF rooms_list[i].id = selected_room_obj
                        THEN [rooms_list[i] EXCEPT !.breach_level = breach_level]
                        ELSE rooms_list[i]]
    /\ Hazards(rooms_list') <= b.MaxHazards
    /\ UNCHANGED <<mode_var, current_mode, room_id_counter, selected_room_obj, sensors_list,
                   selected_sensor_obj, doors_list, selected_door_obj, temp_door_room1_id,
                   fieldVars, ticks_since_init>>

\* _update_selected_room_type of integrated.py (one room: nothing to overlap with)
UpdateSelectedRoomType(b, new_type) ==
    LET typed == [i \in 1 .. Len(rooms_list) |->
                    IF rooms_list[i].id = selected_room_obj
                    THEN [rooms_list[i] EXCEPT !.room_type = new_type]
                    ELSE rooms_list[i]]
        prepared == PrepareVisualizationMapAndFields(typed, sim_running)
    IN /\ program = Designer /\ pc = "idle"
       /\ new_type \in b.RoomTypes
       /\ selected_room_obj # NoneId
       /\ EditFrame
       /\ rooms_list' = prepared.rooms
       /\ o2_field_ground_truth' = prepared.o2
       /\ co2_field_ground_truth' = prepared.co2
       /\ map_mask' = prepared.mask
       /\ UNCHANGED <<mode_var, current_mode, room_id_counter, selected_room_obj,
                      sensors_list, selected_sensor_obj, doors_list, selected_door_obj,
                      temp_door_room1_id, ticks_since_init>>

\* a gas-view radio button is pressed (the one already chosen included)
OnGasViewChange(gas) ==
    /\ program = Designer /\ pc = "idle"
    /\ current_gas_view' = gas
    /\ UpdateGpModelAndPredict(gas, o2_field_ground_truth, co2_field_ground_truth, rooms_list)
    /\ UNCHANGED <<SKLEARN_AVAILABLE, mode_var, current_mode, rooms_list, room_id_counter,
                   selected_room_obj, selected_sensor_obj, doors_list, selected_door_obj,
                   temp_door_room1_id, fieldVars, runVars, ticks_since_init, sim, program>>

\* ----------------------------------------------------- run_simulation_step
\* a. human respiration of one room for one tick
Respiration(room) ==
    IF room.population > 0
    THEN LET o2_consumed_percent ==
                 Scaled(room.population,
                        RatMul(HUMAN_O2_CONSUMPTION_PER_HOUR_PERSON, SIM_DT_HOURS))
             co2_produced_ppm ==
                 Scaled(room.population,
                        RatMul(HUMAN_CO2_PRODUCTION_PPM_PER_HOUR_PERSON, SIM_DT_HOURS))
         IN [room EXCEPT !.o2_level = Max(0, room.o2_level - o2_consumed_percent),
                         !.co2_level = Max(0, room.co2_level + co2_produced_ppm)]
    ELSE room

\* b. breach exchange with Mars; breach_level is kept in tenths
BreachExchange(room) ==
    IF room.breach_level > 0
    THEN LET breach_exchange_fraction ==
                 RatMul(<<room.breach_level, 10>>,
                        RatMul(DEFAULT_BREACH_FLOW_RATE_PER_HOUR, SIM_DT_HOURS))
             o2_to_mars == Scaled(room.o2_level - MARS_O2_PERCENTAGE, breach_exchange_fraction)
             co2_to_mars == Scaled(room.co2_level - MARS_CO2_PPM, breach_exchange_fraction)
         IN [room EXCEPT !.o2_level = Max(0, room.o2_level - o2_to_mars),
                         !.co2_level = Max(0, room.co2_level - co2_to_mars)]
    ELSE room

UpdateRoomGasLevels(room) ==
    IF GetVolumeLiters(room) <= 0 THEN room ELSE BreachExchange(Respiration(room))

\* c. exchange through one door, applied to the room levels as they stand
DoorExchange(rooms, door) ==
    LET room1 == GetRoomById(rooms, door.room1_id)
        room2 == IF door.room2_id # NoneId THEN GetRoomById(rooms, door.room2_id) ELSE 0
        flow_rate_this_step ==
            RatMul(IF door.is_open THEN DOOR_FLOW_RATE_OPEN_PER_HOUR
                   ELSE DOOR_FLOW_RATE_CLOSED_PER_HOUR, SIM_DT_HOURS)
        o2_target_room2 == IF room2 # 0 THEN rooms[room2].o2_level ELSE MARS_O2_PERCENTAGE
        co2_target_room2 == IF room2 # 0 THEN rooms[room2].co2_level ELSE MARS_CO2_PPM
        o2_flow_to_room1 == Scaled(o2_target_room2 - rooms[room1].o2_level, flow_rate_this_step)
        co2_flow_to_room1 ==
            Scaled(co2_target_room2 - rooms[room1].co2_level, flow_rate_this_step)
        \* room1 gains the flow, room2 (if any) loses it and is floored, room1 is floored
        gained == [rooms EXCEPT ![room1].o2_level = @ + o2_flow_to_room1,
                                ![room1].co2_level = @ + co2_flow_to_room1]
        given == IF room2 # 0
                 THEN [gained EXCEPT ![room2].o2_level = Max(0, @ - o2_flow_to_room1),
                                     ![room2].co2_level = Max(0, @ - co2_flow_to_room1)]
                 ELSE gained
    IN IF room1 = 0 THEN rooms
       ELSE [given EXCEPT ![room1].o2_level = Max(0, @), ![room1].co2_level = Max(0, @)]

RECURSIVE DoorLoop(_, _)
DoorLoop(rooms, doors) ==
    IF doors = <<>> THEN rooms
    ELSE DoorLoop(DoorExchange(rooms, Head(doors)), Tail(doors))

\* steps 1a-1c: the room levels after one tick
StepRooms(rooms, doors) ==
    DoorLoop([i \in 1 .. Len(rooms) |-> UpdateRoomGasLevels(rooms[i])], doors)

\* fault variant of RefitDue: every tick refits
RefitAlways(counter) == TRUE
\* the test run_simulation_step makes on the counter it has just incremented
RefitDue(counter) == counter >= GP_UPDATE_EVERY_N_FRAMES

\* fault variant of AfterCancel: the callback stays registered
AfterCancelKept(queue) == queue
\* after_cancel(self.sim_job_id): the callback the id names leaves the queue
AfterCancel(queue) == Max(0, queue - 1)
\* the queue once the callback that is running (none in a direct call) has left it
Fired(queue, at) == IF at = "idle" THEN queue - 1 ELSE queue

\* the scheduled callback, or the call toggle_simulation makes itself on start
RunSimulationStep(b) ==
    /\ UNCHANGED <<sim, program>>
    /\ program = Designer
    /\ pc = "first_tick" \/ (pc = "idle" /\ after_jobs > 0)
    /\ pc' = "idle"
    /\ UNCHANGED habitat
    /\ IF ~sim_running
       THEN /\ sim_job_id' = FALSE
            /\ after_jobs' = IF sim_job_id THEN AfterCancel(Fired(after_jobs, pc))
                             ELSE Fired(after_jobs, pc)
            /\ UNCHANGED <<SKLEARN_AVAILABLE, designVars, fieldVars, gpVars, sim_running,
                           gp_update_counter, current_gas_view,
                           status_suffix, previous_suffix, ticks_since_init>>
       ELSE LET rooms == StepRooms(rooms_list, doors_list)
                o2f == GroundTruthFromRooms(rooms, map_mask, "O2")
                co2f == GroundTruthFromRooms(rooms, map_mask, "CO2")
                counter == gp_update_counter + 1
            IN /\ rooms = rooms_list \/ ticks_since_init < b.MaxTicks
               /\ rooms_list' = rooms
               /\ o2_field_ground_truth' = o2f
               /\ co2_field_ground_truth' = co2f
               /\ IF RefitDue(counter)
                  THEN /\ UpdateGpModelAndPredict(current_gas_view, o2f, co2f, rooms)
                       /\ gp_update_counter' = 0
                  ELSE IF ~SKLEARN_AVAILABLE \/ sensors_list = <<>>
                  THEN /\ UpdateGpModelAndPredict(current_gas_view, o2f, co2f, rooms)
                       /\ gp_update_counter' = counter
                  ELSE /\ gp_update_counter' = counter
                       /\ UNCHANGED <<gpVars, sensors_list, status_suffix, previous_suffix>>
               /\ sim_job_id' = TRUE
               /\ after_jobs' = Fired(after_jobs, pc) + 1
               /\ ticks_since_init' = ticks_since_init + (IF rooms = rooms_list THEN 0 ELSE 1)
               /\ UNCHANGED <<SKLEARN_AVAILABLE, mode_var, current_mode, room_id_counter,
                              selected_room_obj, selected_sensor_obj, doors_list,
                              selected_door_obj, temp_door_room1_id, map_mask, sim_running,
                              current_gas_view>>

\* -------------------------------------------------------- toggle_simulation
ToggleSimulation(b) ==
    /\ UNCHANGED <<sim, program>>
    /\ program = Designer /\ pc = "idle"
    /\ sim_running \/ current_mode \in b.StartModes
    /\ IF sim_running
       THEN \* "Clear Sim"
            /\ sim_running' = FALSE
            /\ sim_job_id' = FALSE
            /\ after_jobs' = IF sim_job_id THEN AfterCancel(after_jobs) ELSE after_jobs
            /\ UpdateGpModelAndPredict(current_gas_view, o2_field_ground_truth,
                                       co2_field_ground_truth, rooms_list)
            /\ UNCHANGED <<SKLEARN_AVAILABLE, mode_var, current_mode, rooms_list,
                           room_id_counter, selected_room_obj, selected_sensor_obj,
                           doors_list, selected_door_obj, temp_door_room1_id, fieldVars,
                           gp_update_counter, pc, habitat, current_gas_view,
                           ticks_since_init>>
       ELSE IF rooms_list = <<>> \/ ~SKLEARN_AVAILABLE
       THEN UNCHANGED <<SKLEARN_AVAILABLE, designVars, fieldVars, gpVars, runVars,
                        current_gas_view, status_suffix, previous_suffix, ticks_since_init>>
       ELSE \* "Initialize & Run Sim": sim_running is set before the fields are prepared
            LET prepared == PrepareVisualizationMapAndFields(rooms_list, TRUE)
            IN /\ sim_running' = TRUE
               /\ rooms_list' = prepared.rooms
               /\ o2_field_ground_truth' = prepared.o2
               /\ co2_field_ground_truth' = prepared.co2
               /\ map_mask' = prepared.mask
               /\ gp_update_counter' = 0
               /\ UpdateGpModelAndPredict(current_gas_view, prepared.o2, prepared.co2,
                                          prepared.rooms)
               /\ mode_var' = "select"
               /\ pc' = IF sim_job_id THEN "idle" ELSE "first_tick"
               /\ UNCHANGED <<SKLEARN_AVAILABLE, current_mode, room_id_counter,
                              selected_room_obj, selected_sensor_obj, doors_list,
                              selected_door_obj, temp_door_room1_id, sim_job_id,
                              after_jobs, habitat, current_gas_view, ticks_since_init>>

\* ------------------------------------------------------------------ Next
Next(b) ==
    \/ \E requested \in b.Modes : SetCurrentMode(b, requested)
    \/ \E p \in b.ClickPoints : HandleMouseDown(b, p)
    \/ DeleteSelectedItem(b)
    \/ ClearAllSensors(b)
    \/ ClearAllDoors(b)
    \/ \E p \in b.ClickPoints : HandleMouseDrag(b, p)
    \/ HandleEscapeKey(b)
    \/ \E population \in b.PopulationChoices : UpdateSelectedRoomPopulation(b, population)
    \/ \E breach_level \in b.BreachChoices : UpdateSelectedRoomBreach(b, breach_level)
    \/ \E gas \in b.Views : OnGasViewChange(gas)
    \/ ToggleSimulation(b)
    \/ RunSimulationStep(b)

\* ================================================= better-sample.py, the colony
\* NORMAL_O2_PERCENTAGE, NORMAL_CO2_PPM and MARS_O2_PERCENTAGE have the values they have
\* in the designer; MARS_CO2_PERCENTAGE * 10000 is the designer's MARS_CO2_PPM.
HUMAN_O2_CONSUMPTION_PER_HOUR == <<2 * O2Scale, 100>>
HUMAN_CO2_PRODUCTION_PER_HOUR == <<35 * CO2Scale, 1>>
\* MarsEnvironment.__init__
MarsEnvironment == [o2_level |-> MARS_O2_PERCENTAGE, co2_level |-> MARS_CO2_PPM]

\* Rectangles <<x0, y0, x1, y1>> rooms are built on (areas 100 and 4), the points
\* breaches are put at and doors are toggled at, the places doors are hung, the breach
\* flow rate the visualizer passes, and the values of dt_hours.
Footprints == {<<10, 10, 20, 20>>, <<30, 10, 32, 12>>}
ColonyPoints == {<<15, 15>>, <<31, 11>>, <<20, 15>>}
DoorPositions == {<<20, 15>>}
BreachFlowRates == {<<1, 2>>}
StepHours == {1, 3}

\* Room.__init__ on the rectangle's four vertices; polygon.area is width * height
Room(room_id, vertices) ==
    [id |-> room_id, vertices |-> vertices,
     area |-> (vertices[3] - vertices[1]) * (vertices[4] - vertices[2]),
     o2_level |-> NORMAL_O2_PERCENTAGE, co2_level |-> NORMAL_CO2_PPM,
     population |-> 0, breaches |-> <<>>, sensors |-> <<>>]

\* Room.is_point_inside: polygon.contains is true in the interior only
IsPointInside(room, p) ==
    /\ room.vertices[1] < p[1] /\ p[1] < room.vertices[3]
    /\ room.vertices[2] < p[2] /\ p[2] < room.vertices[4]

\* find_room_at_point: index of the first room holding the point, 0 for None
FindRoomAtPoint(rooms, p) ==
    LET Holds(r) == IsPointInside(r, p) IN FirstIndex({i \in 1 .. Len(rooms) : Holds(rooms[i])})

\* Door.__init__ and Door.toggle
ColonyDoor(room1_id, room2_id, position, is_open) ==
    [room1_id |-> room1_id, room2_id |-> room2_id, position |-> position,
     is_open |-> is_open, flow_rate |-> IF is_open THEN <<2, 10>> ELSE <<0, 1>>]
Toggle(door) ==
    [door EXCEPT !.is_open = ~door.is_open,
                 !.flow_rate = IF ~door.is_open THEN <<2, 10>> ELSE <<0, 1>>]

\* Sensor.__init__, Sensor.read_o2 and Sensor.read_co2 of the colony: the sensor as the
\* read leaves it, and the value the read returns
ColonySensor(location) ==
    [x |-> location[1], y |-> location[2], variance_o2 |-> 50, variance_co2 |-> 2000,
     last_o2_reading |-> NoReading, last_co2_reading |-> NoReading]
\* the scale read_o2 and read_co2 hand to np.random.normal
ReadScale(sensor, gas) == IF gas = "O2" THEN sensor.variance_o2 ELSE sensor.variance_co2
\* SensorModel.__init__ of sample.py, and the scale its read hands to np.random.normal
SensorModel(x, y) ==
    [x |-> x, y |-> y, var_o2 |-> 50, var_co2 |-> 2000, last_o2 |-> NoReading,
     last_co2 |-> NoReading]
SensorModelReadScale(sensor, gas) == IF gas = "O2" THEN sensor.var_o2 ELSE sensor.var_co2
ReadO2(sensor, true_value, noise) ==
    LET read == [sensor EXCEPT !.last_o2_reading = NoisyReading("O2", true_value, noise)]
    IN [sensor |-> read, returned |-> read.last_o2_reading]
ReadCO2(sensor, true_value, noise) ==
    LET read == [sensor EXCEPT !.last_co2_reading = NoisyReading("CO2", true_value, noise)]
    IN [sensor |-> read, returned |-> read.last_co2_reading]

\* size_factor = 100.0 / max(room.area, 10.0)
SizeFactor(area) == <<100, Max(area, 10)>>

\* first phase of update_simulation for one room
ColonyRespiration(room, dt_hours) ==
    IF room.population > 0
    THEN LET size_factor == SizeFactor(room.area)
             o2_consumed == RatMul(HUMAN_O2_CONSUMPTION_PER_HOUR, <<dt_hours, 1>>)
             co2_produced == RatMul(HUMAN_CO2_PRODUCTION_PER_HOUR, <<dt_hours, 1>>)
         IN [room EXCEPT
               !.o2_level = Max(0, @ - Scaled(room.population, RatMul(o2_consumed, size_factor))),
               !.co2_level = @ + Scaled(room.population, RatMul(co2_produced, size_factor))]
    ELSE room

\* second phase for one room: its breaches one after the other
RECURSIVE ColonyBreaches(_, _, _)
ColonyBreaches(room, breaches, dt_hours) ==
    IF breaches = <<>> THEN room
    ELSE LET rate == RatMul(Head(breaches), <<dt_hours, 1>>)
             o2_flow == Scaled(MarsEnvironment.o2_level - room.o2_level, rate)
             co2_flow == Scaled(MarsEnvironment.co2_level - room.co2_level, rate)
         IN ColonyBreaches([room EXCEPT !.o2_level = @ + o2_flow, !.co2_level = @ + co2_flow],
                           Tail(breaches), dt_hours)

\* fault variant of ColonyDoorExchange: room1 takes the flow, room2 does not give it
ColonyDoorExchangeOneSided(rooms, door, dt_hours) ==
    LET Is1(r) == r.id = door.room1_id
        Is2(r) == r.id # door.room1_id /\ r.id = door.room2_id
        room1 == LastIndex({i \in 1 .. Len(rooms) : Is1(rooms[i])})
        room2 == LastIndex({i \in 1 .. Len(rooms) : Is2(rooms[i])})
        rate == RatMul(door.flow_rate, <<dt_hours, 1>>)
        o2_flow == Scaled(rooms[room2].o2_level - rooms[room1].o2_level, rate)
        co2_flow == Scaled(rooms[room2].co2_level - rooms[room1].co2_level, rate)
    IN IF door.flow_rate[1] > 0 /\ room1 # 0 /\ room2 # 0
       THEN [rooms EXCEPT ![room1].o2_level = @ + o2_flow, ![room1].co2_level = @ + co2_flow]
       ELSE rooms

\* third phase for one door: room1 is the last room with room1_id, room2 the last of the
\* other rooms with room2_id; nothing moves unless both are found
ColonyDoorExchange(rooms, door, dt_hours) ==
    LET Is1(r) == r.id = door.room1_id
        Is2(r) == r.id # door.room1_id /\ r.id = door.room2_id
        room1 == LastIndex({i \in 1 .. Len(rooms) : Is1(rooms[i])})
        room2 == LastIndex({i \in 1 .. Len(rooms) : Is2(rooms[i])})
        rate == RatMul(door.flow_rate, <<dt_hours, 1>>)
        o2_flow == Scaled(rooms[room2].o2_level - rooms[room1].o2_level, rate)
        co2_flow == Scaled(rooms[room2].co2_level - rooms[room1].co2_level, rate)
    IN IF door.flow_rate[1] > 0 /\ room1 # 0 /\ room2 # 0
       THEN [rooms EXCEPT ![room1].o2_level = @ + o2_flow, ![room2].o2_level = @ - o2_flow,
                          ![room1].co2_level = @ + co2_flow, ![room2].co2_level = @ - co2_flow]
       ELSE rooms

RECURSIVE ColonyDoorLoop(_, _, _)
ColonyDoorLoop(rooms, doors, dt_hours) ==
    IF doors = <<>> THEN rooms
    ELSE ColonyDoorLoop(ColonyDoorExchange(rooms, Head(doors), dt_hours), Tail(doors), dt_hours)

\* fault variant of ColonyStepRooms: the doors are served before anybody breathes or
\* anything leaks
ColonyStepRoomsDoorsFirst(rooms, doors, dt_hours) ==
    LET exchanged == ColonyDoorLoop(rooms, doors, dt_hours)
    IN [i \in 1 .. Len(rooms) |->
          ColonyBreaches(ColonyRespiration(exchanged[i], dt_hours),
                         exchanged[i].breaches, dt_hours)]

\* the rooms after update_simulation(dt_hours)
ColonyStepRooms(rooms, doors, dt_hours) ==
    ColonyDoorLoop([i \in 1 .. Len(rooms) |->
                       ColonyBreaches(ColonyRespiration(rooms[i], dt_hours),
                                      rooms[i].breaches, dt_hours)],
                   doors, dt_hours)

ColonyFrame == program = Colony /\ UNCHANGED <<appVars, program>>

AddRoom(vertices) ==
    /\ ColonyFrame
    /\ Len(sim.rooms) < ColonyMaxRooms
    /\ sim.time_step <= ColonyMaxBuildHours
    /\ sim' = [sim EXCEPT !.rooms = Append(@, Room(sim.room_id_counter, vertices)),
                          !.room_id_counter = @ + 1]

\* add_door takes any two ids; 0 stands for the outside
AddDoor(room1_id, room2_id, position, is_open) ==
    /\ ColonyFrame
    /\ Len(sim.doors) < ColonyMaxDoors
    /\ sim.time_step <= ColonyMaxBuildHours
    /\ sim' = [sim EXCEPT !.doors = Append(@, ColonyDoor(room1_id, room2_id, position, is_open))]

BreachCount(rooms) ==
    Cardinality({<<i, j>> \in (1 .. Len(rooms)) \X (1 .. ColonyMaxBreaches + 1) :
                    j <= Len(rooms[i].breaches)})

AddBreach(p, flow_rate) ==
    LET room == FindRoomAtPoint(sim.rooms, p)
    IN /\ ColonyFrame
       /\ BreachCount(sim.rooms) < ColonyMaxBreaches
       /\ sim.time_step <= ColonyMaxBuildHours
       /\ sim' = IF room # 0
                 THEN [sim EXCEPT !.rooms[room].breaches = Append(@, flow_rate)]
                 ELSE sim

ToggleDoor(p) ==
    LET Near(d) == (d.position[1] - p[1]) * (d.position[1] - p[1])
                   + (d.position[2] - p[2]) * (d.position[2] - p[2]) <= 3 * 3
        door == FirstIndex({i \in 1 .. Len(sim.doors) : Near(sim.doors[i])})
    IN /\ ColonyFrame
       /\ sim' = IF door # 0 THEN [sim EXCEPT !.doors[door] = Toggle(@)] ELSE sim

SetPopulation(room_id, population) ==
    LET HasId(r) == r.id = room_id
        room == FirstIndex({i \in 1 .. Len(sim.rooms) : HasId(sim.rooms[i])})
    IN /\ ColonyFrame
       /\ sim' = IF room # 0
                 THEN [sim EXCEPT !.rooms[room].population = Max(0, population)]
                 ELSE sim

\* one turn of run_simulation_thread: update_simulation(dt_sim), then time_step += dt_sim.
\* The sensors update_simulation reads at its end are not part of this model.
UpdateSimulation(dt_hours) ==
    /\ ColonyFrame
    /\ sim.time_step + dt_hours <= ColonyMaxHours
    /\ sim' = [sim EXCEPT !.rooms = ColonyStepRooms(sim.rooms, sim.doors, dt_hours),
                          !.time_step = @ + dt_hours]

ColonyNext ==
    \/ \E vertices \in Footprints : AddRoom(vertices)
    \/ \E room1_id, room2_id \in 0 .. ColonyMaxRooms, position \in DoorPositions :
          AddDoor(room1_id, room2_id, position, TRUE)
    \/ \E p \in ColonyPoints, flow_rate \in BreachFlowRates : AddBreach(p, flow_rate)
    \/ \E p \in ColonyPoints : ToggleDoor(p)
    \/ \E room_id \in 1 .. ColonyMaxRooms, population \in 0 .. ColonyMaxPopulation :
          SetPopulation(room_id, population)
    \/ \E dt_hours \in StepHours : UpdateSimulation(dt_hours)

\* sensing sessions of the designer
Spec == Init(SensingSession) /\ [][Next(SensingSession)]_vars
\* atmosphere sessions of the designer, and the colony
\* (the script that was not launched rests at its initial values)
AtmosphereInit ==
    /\ program \in {Designer, Colony}
    /\ DrawingApp(AirSession)
    /\ sim = ColonySimulation
AtmosphereNext == Next(AirSession) \/ ColonyNext
AtmosphereSpec == AtmosphereInit /\ [][AtmosphereNext]_vars
\* ------------------------------------------ the colony run by its threads
\* a colony as create_sample_colony builds one, cut down to two rooms and the door
\* between them, with somebody in the first room and no sensor yet
BuiltColony ==
    [ColonySimulation EXCEPT
        !.rooms = <<[Room(1, <<10, 10, 20, 20>>) EXCEPT !.population = 1],
                    Room(2, <<30, 10, 32, 12>>)>>,
        !.doors = <<ColonyDoor(1, 2, <<20, 15>>, TRUE)>>,
        !.room_id_counter = 3]

\* the values of dt_sim in the turns of the threads
ThreadStepHours == {1}
\* start_simulation: a new thread, whatever threads there are
StartSimulation ==
    /\ ColonyFrame
    /\ Len(sim.threads) < ThreadMaxThreads
    /\ sim' = [sim EXCEPT !.threads = Append(@, [pc |-> "start", dt_sim |-> 0])]

\* stop_simulation: the flag is lowered; join(1.0) waits one second at most and then
\* returns whether or not the thread has ended
StopSimulation ==
    /\ ColonyFrame
    /\ sim' = [sim EXCEPT !.running = FALSE]

\* add_sensor, called by the visualizer's _on_click: a sensor that has read nothing is
\* put into the room at the point (the sensors of mars_env, drawn in no room, are left out)
AddSensor(p) ==
    LET room == FindRoomAtPoint(sim.rooms, p)
        placed == {<<i, j>> \in (1 .. Len(sim.rooms)) \X (1 .. ThreadMaxSensors) :
                      j <= Len(sim.rooms[i].sensors)}
    IN /\ ColonyFrame
       /\ Cardinality(placed) < ThreadMaxSensors
       /\ sim' = IF room # 0
                 THEN [sim EXCEPT !.rooms[room].sensors = Append(@, ColonySensor(p))]
                 ELSE sim

\* the sensors of a room that _update_plots cannot render: it formats last_o2_reading
\* and last_co2_reading with :.1f and :.0f, which raises TypeError on None
Unrendered(room) ==
    {j \in 1 .. Len(room.sensors) :
        \/ room.sensors[j].last_o2_reading = NoReading
        \/ room.sensors[j].last_co2_reading = NoReading}

\* _update_plots, called by the FuncAnimation timer of the visualizer, which main creates
\* once it has started the simulation: it draws, or raises, and changes nothing
UpdatePlots ==
    /\ ColonyFrame
    /\ sim.threads # <<>>
    /\ UNCHANGED sim

\* one step of thread t in run_simulation_thread.  update_simulation is taken a phase
\* at a time (at "respiration", "breaches", "doors" and "sensors" the thread is inside
\* it, about to go through that phase).
RunSimulationThread(t, dt_sim) ==
    LET thread == sim.threads[t]
        dt_hours == thread.dt_sim
    IN /\ ColonyFrame
       /\ t \in 1 .. Len(sim.threads)
       /\ CASE thread.pc = "start" ->
                 sim' = [sim EXCEPT !.running = TRUE, !.threads[t].pc = "while"]
            [] thread.pc = "while" ->
                 IF sim.running
                 THEN /\ sim.time_step + dt_sim <= ThreadMaxHours
                      /\ sim' = [sim EXCEPT !.threads[t] =
                                                [pc |-> "respiration", dt_sim |-> dt_sim]]
                 ELSE sim' = [sim EXCEPT !.threads[t].pc = "ended"]
            [] thread.pc = "respiration" ->
                 sim' = [sim EXCEPT !.rooms = [i \in 1 .. Len(@) |->
                                                 ColonyRespiration(@[i], dt_hours)],
                                    !.threads[t].pc = "breaches"]
            [] thread.pc = "breaches" ->
                 sim' = [sim EXCEPT !.rooms = [i \in 1 .. Len(@) |->
                                                 ColonyBreaches(@[i], @[i].breaches, dt_hours)],
                                    !.threads[t].pc = "doors"]
            [] thread.pc = "doors" ->
                 sim' = [sim EXCEPT !.rooms = ColonyDoorLoop(@, sim.doors, dt_hours),
                                    !.threads[t].pc = "sensors"]
            [] thread.pc = "sensors" ->
                 \E draws \in NoiseDraws :
                    LET Read(room, sensor) ==
                            ReadCO2(ReadO2(sensor, room.o2_level, draws[2]).sensor,
                                    room.co2_level, draws[3]).sensor
                    IN sim' = [sim EXCEPT
                                 !.rooms = [i \in 1 .. Len(@) |->
                                              [@[i] EXCEPT !.sensors =
                                                  [j \in 1 .. Len(@) |-> Read(sim.rooms[i], @[j])]]],
                                 !.time_step = @ + dt_hours,
                                 !.threads[t].pc = "sleep"]
            [] thread.pc = "sleep" ->
                 sim' = [sim EXCEPT !.threads[t].pc = "while"]
            [] thread.pc = "ended" -> FALSE

ThreadInit ==
    /\ program = Colony
    /\ DrawingApp(AirSession)
    /\ sim = BuiltColony
ThreadNext ==
    \/ StartSimulation
    \/ StopSimulation
    \/ \E t \in 1 .. ThreadMaxThreads, dt_sim \in ThreadStepHours :
          RunSimulationThread(t, dt_sim)
    \/ \E p \in ColonyPoints, flow_rate \in BreachFlowRates : AddBreach(p, flow_rate)
    \/ \E p \in ColonyPoints : ToggleDoor(p)
    \/ \E room_id \in 1 .. ColonyMaxRooms, population \in 0 .. ColonyMaxPopulation :
          SetPopulation(room_id, population)
ThreadSpec == ThreadInit /\ [][ThreadNext]_vars

\* the threads, the Add Sensor tool of the visualizer and its plot timer
PlotNext ==
    \/ StartSimulation
    \/ StopSimulation
    \/ \E t \in 1 .. ThreadMaxThreads, dt_sim \in ThreadStepHours :
          RunSimulationThread(t, dt_sim)
    \/ \E p \in ColonyPoints : AddSensor(p)
    \/ UpdatePlots
PlotSpec == ThreadInit /\ [][PlotNext]_vars

\* sessions of the designer with room types (integrated.py), the simulation at rest
TypedNext ==
    \/ \E requested \in TypedSession.Modes : SetCurrentMode(TypedSession, requested)
    \/ \E p \in TypedSession.ClickPoints : HandleMouseDown(TypedSession, p)
    \/ \E new_type \in TypedSession.RoomTypes : UpdateSelectedRoomType(TypedSession, new_type)
    \/ \E gas \in TypedSession.Views : OnGasViewChange(gas)
TypedSpec == Init(TypedSession) /\ [][TypedNext]_vars

\* ------------------------------ the designer of integrated.py, simulating
\* A session like that of TypedSession, at one place of the plan and on the O2 view, that
\* goes on: the colony-size slider is moved, the window is resized and the simulation
\* is started, ticked and stopped.  No greenhouse is drawn
\* (both greenhouse areas are 0) and no leak is placed.  A resize never makes the canvas
\* smaller than it was built, so the cells of Cells stay on the grid; the contents of the
\* grids are followed on those cells, their shapes in habitat.sim_grid and gp_field_shape.
HabitatMaxTicks == 2
HabitatDays == 2
INTEGRATED_SIM_DT_HOURS == 30
\* ColonySizes are the places the slider is put at, CanvasSizes the sizes <Configure>
\* reports, Variabilities the values np.random.normal(1.0, 0.05) takes for a day
HabitatSession ==
    [TypedSession EXCEPT !.ClickPoints = {<<32, 30>>}, !.Views = {"O2"}]
    @@ [ColonySizes |-> {10, 50},
        CanvasSizes |-> {<<CANVAS_WIDTH, CANVAS_HEIGHT>>,
                         <<CANVAS_WIDTH + CELL_SIZE, CANVAS_HEIGHT>>},
        Variabilities |-> {<<105, 100>>}]

\* _on_colony_size_change (the slider is disabled while the simulation runs)
OnColonySizeChange(size) ==
    /\ program = Designer /\ pc = "idle" /\ ~sim_running
    /\ habitat' = [habitat EXCEPT !.colony_size = size]
    /\ UNCHANGED <<SKLEARN_AVAILABLE, designVars, fieldVars, gpVars, sim_running, sim_job_id,
                   gp_update_counter, pc, after_jobs, current_gas_view, status_suffix,
                   previous_suffix, ticks_since_init, sim, program>>

\* OxygenVisualizerTab.simulate_oxygen_over_time for a colony of Person() (0.83 kg of O2
\* a day each) with no greenhouse: the oxygen reserve in kg, day by day, variability[d]
\* being the draw of day d.  A reserve of r kg is held as r * O2Scale.
SimulateOxygenOverTime(colony_size, variability) ==
    LET daily_o2_consumption_total == colony_size * ((83 * O2Scale) \div 100)
        daily_o2_production_total == 0
        net_daily_o2_change == daily_o2_production_total - daily_o2_consumption_total
        initial_o2_reserve_kg == IF daily_o2_consumption_total > 0
                                 THEN daily_o2_consumption_total * 30 ELSE 100 * O2Scale
        o2_levels_over_time[d \in 0 .. Len(variability)] ==
            IF d = 0 THEN initial_o2_reserve_kg
            ELSE Max(0, o2_levels_over_time[d - 1]
                        + Scaled(net_daily_o2_change, variability[d]))
    IN [d \in 1 .. Len(variability) + 1 |-> o2_levels_over_time[d - 1]]

\* _on_canvas_resize: the grids are made anew in the shape of the new canvas and
\* prepared; gp_reconstructed_field is not touched
OnCanvasResize(size) ==
    LET grid == <<(size[2] - AXIS_MARGIN) \div CELL_SIZE, (size[1] - AXIS_MARGIN) \div CELL_SIZE>>
        prepared == IF ~sim_running THEN InitializeGasFields(rooms_list)
                    ELSE [rooms |-> rooms_list,
                          o2 |-> [c \in Cells |-> MARS_O2_PERCENTAGE],
                          co2 |-> [c \in Cells |-> MARS_CO2_PPM],
                          mask |-> UpdateMapMask(rooms_list)]
    IN /\ program = Designer /\ pc = "idle"
       /\ habitat' = [habitat EXCEPT !.canvas = size, !.sim_grid = grid]
       /\ rooms_list' = prepared.rooms
       /\ o2_field_ground_truth' = prepared.o2
       /\ co2_field_ground_truth' = prepared.co2
       /\ map_mask' = prepared.mask
       /\ UNCHANGED <<SKLEARN_AVAILABLE, mode_var, current_mode, room_id_counter,
                      selected_room_obj, sensors_list, selected_sensor_obj, doors_list,
                      selected_door_obj, temp_door_room1_id, gpVars, sim_running,
                      sim_job_id, gp_update_counter, pc, after_jobs, current_gas_view,
                      status_suffix, previous_suffix, ticks_since_init, sim, program>>

\* draw_field_visualization raises IndexError: a cell of the grid that lies in a room of
\* some type (map_mask is 1 there) is not a cell of the array of that shape
DrawFieldVisualizationRaises(shape, grid, rooms) ==
    \E c \in (0 .. grid[1] - 1) \X (0 .. grid[2] - 1) :
        /\ c[1] >= shape[1] \/ c[2] >= shape[2]
        /\ FirstTypedRoomAt(rooms, SimToCanvasCoordsCenter(c)) # 0

\* toggle_simulation of integrated.py
IntegratedToggleSimulation ==
    IF sim_running
    THEN ToggleSimulation(HabitatSession)
    ELSE /\ program = Designer /\ pc = "idle"
         /\ UNCHANGED <<sim, program>>
         /\ IF rooms_list = <<>>
            THEN UNCHANGED <<SKLEARN_AVAILABLE, designVars, fieldVars, gpVars, runVars,
                             current_gas_view, status_suffix, previous_suffix,
                             ticks_since_init>>
            ELSE \E variability \in [1 .. HabitatDays -> HabitatSession.Variabilities] :
                   LET prepared == PrepareVisualizationMapAndFields(rooms_list, TRUE)
                   IN /\ sim_running' = TRUE
                      /\ habitat' = [habitat EXCEPT
                                       !.o2_profile = SimulateOxygenOverTime(habitat.colony_size,
                                                                             variability),
                                       !.sim_time_hours = 0]
                      /\ selected_room_obj' = NoneId
                      /\ selected_sensor_obj' = 0
                      /\ rooms_list' = prepared.rooms
                      /\ o2_field_ground_truth' = prepared.o2
                      /\ co2_field_ground_truth' = prepared.co2
                      /\ map_mask' = prepared.mask
                      /\ gp_update_counter' = 0
                      /\ UpdateGpModelAndPredict(current_gas_view, prepared.o2, prepared.co2,
                                                 prepared.rooms)
                      /\ mode_var' = "select"
                      /\ pc' = IF sim_job_id THEN "idle" ELSE "first_tick"
                      /\ UNCHANGED <<SKLEARN_AVAILABLE, current_mode, room_id_counter,
                                     doors_list, selected_door_obj, temp_door_room1_id,
                                     sim_job_id, after_jobs, current_gas_view,
                                     ticks_since_init>>

\* run_simulation_step of integrated.py
IntegratedRunSimulationStep ==
    IF ~sim_running
    THEN RunSimulationStep(HabitatSession)
    ELSE LET sim_time_hours == habitat.sim_time_hours + INTEGRATED_SIM_DT_HOURS
             o2_profile == habitat.o2_profile
             current_day_idx == IF o2_profile # <<>>
                                THEN Min(Len(o2_profile) - 1, sim_time_hours \div 24) ELSE 0
             target_o2_from_profile == IF current_day_idx < Len(o2_profile)
                                       THEN o2_profile[current_day_idx + 1]
                                       ELSE NORMAL_O2_PERCENTAGE
             rooms == [i \in 1 .. Len(rooms_list) |->
                         IF HasType(rooms_list[i])
                         THEN [rooms_list[i] EXCEPT !.o2_level = target_o2_from_profile]
                         ELSE rooms_list[i]]
             Truth(gas) == [c \in Cells |->
                              LET room_obj == FirstTypedRoomAt(rooms, SimToCanvasCoordsCenter(c))
                              IN IF room_obj # 0 THEN RoomLevel(rooms[room_obj], gas)
                                 ELSE MarsLevel(gas)]
             counter == gp_update_counter + 1
         IN /\ program = Designer
            /\ pc = "first_tick" \/ (pc = "idle" /\ after_jobs > 0)
            /\ sim_time_hours <= HabitatMaxTicks * INTEGRATED_SIM_DT_HOURS
            /\ rooms = rooms_list \/ ticks_since_init < HabitatMaxTicks
            /\ pc' = "idle"
            /\ habitat' = [habitat EXCEPT !.sim_time_hours = sim_time_hours]
            /\ rooms_list' = rooms
            /\ o2_field_ground_truth' = Truth("O2")
            /\ co2_field_ground_truth' = Truth("CO2")
            /\ IF RefitDue(counter) \/ ~SKLEARN_AVAILABLE \/ sensors_list = <<>>
               THEN /\ UpdateGpModelAndPredict(current_gas_view, Truth("O2"), Truth("CO2"),
                                               rooms)
                    /\ gp_update_counter' = 0
               ELSE /\ gp_update_counter' = counter
                    /\ UNCHANGED <<gpVars, sensors_list, status_suffix, previous_suffix>>
            /\ IF DrawFieldVisualizationRaises(gp_field_shape', habitat.sim_grid, rooms)
               THEN UNCHANGED sim_job_id /\ after_jobs' = Fired(after_jobs, pc)
               ELSE sim_job_id' = TRUE /\ after_jobs' = Fired(after_jobs, pc) + 1
            /\ ticks_since_init' = ticks_since_init + (IF rooms = rooms_list THEN 0 ELSE 1)
            /\ UNCHANGED <<SKLEARN_AVAILABLE, mode_var, current_mode, room_id_counter,
                           selected_room_obj, selected_sensor_obj, doors_list,
                           selected_door_obj, temp_door_room1_id, map_mask, sim_running,
                           current_gas_view, sim, program>>

IntegratedNext ==
    \/ \E requested \in HabitatSession.Modes : SetCurrentMode(HabitatSession, requested)
    \/ \E p \in HabitatSession.ClickPoints : HandleMouseDown(HabitatSession, p)
    \/ \E new_type \in HabitatSession.RoomTypes : UpdateSelectedRoomType(HabitatSession, new_type)
    \/ \E gas \in HabitatSession.Views : OnGasViewChange(gas)
    \/ \E size \in HabitatSession.ColonySizes : OnColonySizeChange(size)
    \/ \E size \in HabitatSession.CanvasSizes : OnCanvasResize(size)
    \/ IntegratedToggleSimulation
    \/ IntegratedRunSimulationStep
IntegratedSpec == Init(HabitatSession) /\ [][IntegratedNext]_vars

\* ============================================================== properties
\* the ground-truth grid of the gas on view
ViewedTruth ==
    IF current_gas_view = "O2" THEN o2_field_ground_truth ELSE co2_field_ground_truth

\* C1: after any number of steps of either program (run_simulation_step, or
\* update_simulation with any dt_hours >= 0), whatever the populations, breaches and
\* doors, every room has o2_level >= 0 and co2_level >= 0.
C1_LevelsNeverNegative ==
    /\ \A i \in 1 .. Len(rooms_list) :
          rooms_list[i].o2_level >= 0 /\ rooms_list[i].co2_level >= 0
    /\ \A i \in 1 .. Len(sim.rooms) :
          sim.rooms[i].o2_level >= 0 /\ sim.rooms[i].co2_level >= 0

\* C2: in every reachable state of the designer, an empty sensors_list means that
\* gp_reconstructed_field equals the ground-truth grid of the viewed gas in every cell.
C2_NoSensorsShowsTruth ==
    sensors_list = <<>> => gp_reconstructed_field = ViewedTruth

\* ---- C3
\* a tick of the designer in which the only thing that moves air is one door between
\* two different rooms of the plan
DesignerDoorOnlyTick ==
    /\ RunSimulationStep(AirSession) /\ sim_running
    /\ Len(doors_list) = 1 /\ Hazards(rooms_list) = 0
    /\ doors_list[1].room1_id # doors_list[1].room2_id
    /\ GetRoomById(rooms_list, doors_list[1].room1_id) # 0
    /\ GetRoomById(rooms_list, doors_list[1].room2_id) # 0
\* the same for update_simulation(dt_hours) of the colony
ColonyDoorOnlyStep(dt_hours) ==
    /\ UpdateSimulation(dt_hours)
    /\ Len(sim.doors) = 1
    /\ sim.doors[1].room1_id # sim.doors[1].room2_id
    /\ \E i \in 1 .. Len(sim.rooms) : sim.rooms[i].id = sim.doors[1].room1_id
    /\ \E i \in 1 .. Len(sim.rooms) : sim.rooms[i].id = sim.doors[1].room2_id
    /\ \A i \in 1 .. Len(sim.rooms) :
          sim.rooms[i].population = 0 /\ sim.rooms[i].breaches = <<>>
\* room r1 changes by rate * (room2 - room1), room r2 by the negative of that amount
SymmetricExchange(before, after, r1, r2, rate) ==
    \A gas \in Gases :
        LET moved == Scaled(RoomLevel(before[r2], gas) - RoomLevel(before[r1], gas), rate)
        IN /\ RoomLevel(after[r1], gas) = RoomLevel(before[r1], gas) + moved
           /\ RoomLevel(after[r2], gas) = RoomLevel(before[r2], gas) - moved
           /\ RoomLevel(after[r1], gas) + RoomLevel(after[r2], gas)
                = RoomLevel(before[r1], gas) + RoomLevel(before[r2], gas)
\* the scenario: A at 21.0 %, B at 15.0 %, an open door (0.2 per hour), one hour
ScenarioRooms ==
    <<Room(1, <<10, 10, 20, 20>>),
      [Room(2, <<30, 10, 32, 12>>) EXCEPT !.o2_level = 15 * O2Scale]>>
ScenarioExchange ==
    LET after == ColonyStepRooms(ScenarioRooms, <<ColonyDoor(1, 2, <<20, 15>>, TRUE)>>, 1)
    IN /\ after[1].o2_level = (198 * O2Scale) \div 10
       /\ after[2].o2_level = (162 * O2Scale) \div 10

\* C3: for a door joining two distinct existing rooms, one step with no population and
\* no breach changes room1's level of each gas by flow_rate * dt * (room2 - room1) and
\* room2's level by exactly the negative of that, so the sum of the two levels is
\* unchanged; 21.0 and 15.0 with flow rate 0.2 and dt 1.0 become 19.8 and 16.2.
C3_DoorExchangeSymmetric ==
    [][/\ DesignerDoorOnlyTick =>
            LET door == doors_list[1]
            IN SymmetricExchange(rooms_list, rooms_list',
                                 GetRoomById(rooms_list, door.room1_id),
                                 GetRoomById(rooms_list, door.room2_id),
                                 RatMul(IF door.is_open THEN DOOR_FLOW_RATE_OPEN_PER_HOUR
                                        ELSE DOOR_FLOW_RATE_CLOSED_PER_HOUR, SIM_DT_HOURS))
       /\ \A dt_hours \in StepHours :
            ColonyDoorOnlyStep(dt_hours) =>
               LET door == sim.doors[1]
                   r1 == CHOOSE i \in 1 .. Len(sim.rooms) : sim.rooms[i].id = door.room1_id
                   r2 == CHOOSE i \in 1 .. Len(sim.rooms) : sim.rooms[i].id = door.room2_id
               IN SymmetricExchange(sim.rooms, sim'.rooms, r1, r2,
                                    RatMul(door.flow_rate, <<dt_hours, 1>>))
       /\ ScenarioExchange]_vars

\* the designer between two ticks of a run in which nobody breathes and nothing leaks,
\* with a door between two rooms whose levels differ
C3_Witness ==
    /\ program = Designer /\ sim_running /\ pc = "idle" /\ sim_job_id
    /\ Len(doors_list) = 1 /\ Hazards(rooms_list) = 0
    /\ LET r1 == GetRoomById(rooms_list, doors_list[1].room1_id)
           r2 == GetRoomById(rooms_list, doors_list[1].room2_id)
       IN /\ r1 # 0 /\ r2 # 0 /\ r1 # r2
          /\ rooms_list[r1].o2_level # rooms_list[r2].o2_level

\* ---- C4
RECURSIVE GCD(_, _)
GCD(a, b) == IF b = 0 THEN a ELSE GCD(b, a % b)
\* a rate in lowest terms
Reduced(r) == <<r[1] \div GCD(r[1], r[2]), r[2] \div GCD(r[1], r[2])>>
\* what respiration over dt at the given hourly rates does to a room of the given area
Breathed(room, area, o2_rate, co2_rate, dt) ==
    IF room.population > 0
    THEN [room EXCEPT
            !.o2_level = Max(0, @ - Scaled(room.population,
                                           Reduced(RatMul(RatMul(o2_rate, dt),
                                                          SizeFactor(area))))),
            !.co2_level = @ + Scaled(room.population,
                                     Reduced(RatMul(RatMul(co2_rate, dt),
                                                    SizeFactor(area))))]
    ELSE room

\* C4: in one step respiration lowers the O2 level of each room with population > 0 by
\* population * hourly O2 rate * dt * size factor (floored at 0) and raises its CO2 level
\* by population * hourly CO2 rate * dt * the same factor, the factor being derived from
\* the room's area with a floor on small areas; a room with population 0 is not changed.
\* (Stated for the steps in which nothing else acts on the room: no breach, no door.)
C4_RespirationScaledBySize ==
    [][/\ (RunSimulationStep(AirSession) /\ sim_running /\ doors_list = <<>>) =>
            \A i \in 1 .. Len(rooms_list) :
                rooms_list[i].breach_level = 0 =>
                    rooms_list'[i] = Breathed(rooms_list[i], CalculateAreaPixels(rooms_list[i]),
                                              HUMAN_O2_CONSUMPTION_PER_HOUR_PERSON,
                                              HUMAN_CO2_PRODUCTION_PPM_PER_HOUR_PERSON,
                                              SIM_DT_HOURS)
       /\ \A dt_hours \in StepHours :
            (UpdateSimulation(dt_hours) /\ sim.doors = <<>>) =>
                \A i \in 1 .. Len(sim.rooms) :
                    sim.rooms[i].breaches = <<>> =>
                        sim'.rooms[i] = Breathed(sim.rooms[i], sim.rooms[i].area,
                                                 HUMAN_O2_CONSUMPTION_PER_HOUR,
                                                 HUMAN_CO2_PRODUCTION_PER_HOUR,
                                                 <<dt_hours, 1>>)]_vars

\* ---- C5
Between(new, previous, ambient) ==
    Min(previous, ambient) <= new /\ new <= Max(previous, ambient)
\* the new level is previous + fraction * (ambient - previous), to within one unit of
\* rounding, and lies between the previous level and the ambient one
TowardAmbient(before, after, fraction) ==
    \A gas \in Gases :
        /\ Abs((RoomLevel(after, gas) - RoomLevel(before, gas))
               - Scaled(MarsLevel(gas) - RoomLevel(before, gas), fraction)) <= 1
        /\ Between(RoomLevel(after, gas), RoomLevel(before, gas), MarsLevel(gas))

\* C5: in one step each gas level of a breached room changes by breach level * leak
\* rate * dt * (ambient - current), so the new level lies between the previous level and
\* the ambient one; a room with no breach is not changed by breach exchange.
\* (Stated for the steps in which nothing else acts on the room: nobody in it, no door.)
C5_BreachMovesTowardAmbient ==
    [][/\ (RunSimulationStep(AirSession) /\ sim_running /\ doors_list = <<>>) =>
            \A i \in 1 .. Len(rooms_list) :
                rooms_list[i].population = 0 =>
                    IF rooms_list[i].breach_level > 0
                    THEN TowardAmbient(rooms_list[i], rooms_list'[i],
                                       RatMul(<<rooms_list[i].breach_level, 10>>,
                                              RatMul(DEFAULT_BREACH_FLOW_RATE_PER_HOUR,
                                                     SIM_DT_HOURS)))
                    ELSE rooms_list'[i] = rooms_list[i]
       /\ \A dt_hours \in StepHours :
            (UpdateSimulation(dt_hours) /\ sim.doors = <<>>) =>
                \A i \in 1 .. Len(sim.rooms) :
                    sim.rooms[i].population = 0 =>
                        IF Len(sim.rooms[i].breaches) = 1
                        THEN TowardAmbient(sim.rooms[i], sim'.rooms[i],
                                           RatMul(sim.rooms[i].breaches[1], <<dt_hours, 1>>))
                        ELSE IF sim.rooms[i].breaches = <<>>
                        THEN sim'.rooms[i] = sim.rooms[i]
                        ELSE \A gas \in Gases :
                                Between(RoomLevel(sim'.rooms[i], gas),
                                        RoomLevel(sim.rooms[i], gas), MarsLevel(gas))]_vars

\* ---- the estimator (C6 to C10)
\* the model of the gas on view
ViewedModel == IF current_gas_view = "O2" THEN gp_model_o2 ELSE gp_model_co2
\* the steps of a sensing session in which update_gp_model_and_predict is called:
\* a gas-view button, "Clear Sim", "Initialize & Run Sim", and the ticks that call it
ViewChangeUpdate == \E gas \in Gases : OnGasViewChange(gas)
StopUpdate == ToggleSimulation(SensingSession) /\ sim_running
StartUpdate ==
    ToggleSimulation(SensingSession) /\ ~sim_running /\ rooms_list # <<>> /\ SKLEARN_AVAILABLE
TickUpdate ==
    /\ RunSimulationStep(SensingSession) /\ sim_running
    /\ \/ gp_update_counter + 1 >= GP_UPDATE_EVERY_N_FRAMES
       \/ ~SKLEARN_AVAILABLE
       \/ sensors_list = <<>>
EstimatorRuns == ViewChangeUpdate \/ StopUpdate \/ StartUpdate \/ TickUpdate

\* C6: update_gp_model_and_predict always returns to its caller.  Without the regression
\* library, with no sensors, or when fit/predict raises, the reconstructed field becomes
\* a copy of the current ground-truth grid of the viewed gas, the ground-truth grids are
\* not modified, and the status is the non-fatal one of that case.
C6_EstimatorFallsBackToTruth ==
    [][EstimatorRuns =>
          /\ ~SKLEARN_AVAILABLE =>
                gp_reconstructed_field' = ViewedTruth' /\ status_suffix' = StatusNoSklearn
          /\ (SKLEARN_AVAILABLE /\ sensors_list = <<>>) =>
                gp_reconstructed_field' = ViewedTruth' /\ status_suffix' = StatusNoSensors
          /\ (SKLEARN_AVAILABLE /\ sensors_list # <<>>) =>
                /\ status_suffix' \in {StatusFitted, StatusGpError}
                /\ status_suffix' = StatusGpError => gp_reconstructed_field' = ViewedTruth'
          \* the grids are those the caller handed over
          /\ IF TickUpdate
             THEN /\ o2_field_ground_truth' = GroundTruthFromRooms(rooms_list', map_mask', "O2")
                  /\ co2_field_ground_truth' = GroundTruthFromRooms(rooms_list', map_mask', "CO2")
             ELSE UNCHANGED <<o2_field_ground_truth, co2_field_ground_truth>>
          \* the handler has run to its end
          /\ pc' \in {"idle", "first_tick"}]_vars

\* a fit has raised: the error status is shown over a copy of the truth, which differs
\* from what a fit on the same sensors would have shown
C6_Witness ==
    /\ status_suffix = StatusGpError /\ sensors_list # <<>>
    /\ gp_reconstructed_field = ViewedTruth
    /\ \E c \in Cells : ViewedTruth[c] # MaxClip(current_gas_view) /\ ViewedTruth[c] # 0

\* ---- C7
\* the suffixes an update may leave in the state the application is in
StatusPossible(suffix) ==
    ENABLED (/\ UpdateGpModelAndPredict(current_gas_view, o2_field_ground_truth,
                                        co2_field_ground_truth, rooms_list)
             /\ status_suffix' = suffix)
StatusByCondition ==
    IF ~SKLEARN_AVAILABLE THEN {StatusNoSklearn}
    ELSE IF sensors_list = <<>> THEN {StatusNoSensors}
    ELSE {StatusFitted, StatusGpError}

\* C7: the status follows the state machine after every update.  With no sensors it is
\* the no-sensors status; with a sensor it is the fitted status when the fit succeeds
\* and the error status when the fit raises, whatever the status was before (an earlier
\* error included); the error status is not the no-sensors status; and no status is
\* absorbing: the next update may always leave each status its conditions allow.
C7_StatusStateMachine ==
    /\ []((pc = "idle" /\ SKLEARN_AVAILABLE /\ sensors_list # <<>>) =>
             StatusPossible(StatusFitted) /\ StatusPossible(StatusGpError))
    /\ [][EstimatorRuns => status_suffix' \in StatusByCondition]_vars
    /\ [](StatusGpError # StatusNoSensors /\ StatusGpError # StatusFitted)

\* a fit that succeeded right after one that raised
C7_Witness ==
    previous_suffix = StatusGpError /\ status_suffix = StatusFitted

\* ---- C8
\* C8: after every update in which the fit succeeded, every cell of the reconstructed
\* field lies in the plausible range of the viewed gas, [0, 1.5 * 21.0] for O2 and
\* [0, 1.1 * 950000] for CO2, whatever the regression returned.
C8_FittedFieldClipped ==
    status_suffix = StatusFitted =>
        \A c \in Cells :
            /\ 0 <= gp_reconstructed_field[c]
            /\ gp_reconstructed_field[c]
                 <= (IF current_gas_view = "O2" THEN (315 * O2Scale) \div 10
                     ELSE 1045000 * CO2Scale)

\* a fitted CO2 field whose raw prediction left the range on both sides
C8_Witness ==
    /\ status_suffix = StatusFitted /\ current_gas_view = "CO2"
    /\ \E c \in Cells : gp_reconstructed_field[c] = 0
    /\ \E c \in Cells : gp_reconstructed_field[c] = 1045000 * CO2Scale

\* ---- C9
\* the viewed model has been fitted on readings of the sensors taken from the grids and
\* rooms of the state just entered
RefittedOnCurrentTruth ==
    /\ status_suffix' \in {StatusFitted, StatusGpError}
    /\ \A i \in 1 .. Len(sensors_list') : sensors_list'[i].last_o2_reading # NoReading
    /\ status_suffix' = StatusFitted =>
          \E noise \in [1 .. Len(sensors_list) -> NoiseDraws] :
              LET data == CollectSensorDataForGp(current_gas_view, o2_field_ground_truth',
                                                 co2_field_ground_truth', rooms_list',
                                                 sensors_list, noise)
              IN ViewedModel' = Fitted(data.X, data.y)

C10_ModelsSeparate ==
    [][/\ gp_model_o2' # gp_model_o2 => current_gas_view' = "O2"
       /\ gp_model_co2' # gp_model_co2 => current_gas_view' = "CO2"]_vars

\* both models fitted, each on the readings of its own gas
C10_Witness ==
    /\ gp_model_o2.fitted /\ gp_model_co2.fitted
    /\ gp_model_o2.y # gp_model_co2.y

\* ---- C11
\* the rooms of the colony with the air they were built with
FreshRooms == [i \in 1 .. Len(sim.rooms) |->
                 [sim.rooms[i] EXCEPT !.o2_level = NORMAL_O2_PERCENTAGE,
                                      !.co2_level = NORMAL_CO2_PPM]]
\* one hour of the three rules, each on what the one before it left
InOrder(rooms, doors, dt_hours) ==
    LET breathed == [i \in 1 .. Len(rooms) |-> ColonyRespiration(rooms[i], dt_hours)]
        leaked == [i \in 1 .. Len(rooms) |->
                     ColonyBreaches(breathed[i], breathed[i].breaches, dt_hours)]
    IN ColonyDoorLoop(leaked, doors, dt_hours)

\* C11: within one step the three rules are applied in order, respiration, then breach
\* exchange, then door exchange: the breach exchange works on the levels respiration
\* left, the door exchange on the levels respiration and breach exchange left.
C11_RulesInOrder ==
    [][/\ (RunSimulationStep(AirSession) /\ sim_running) =>
             rooms_list' =
                DoorLoop([i \in 1 .. Len(rooms_list) |->
                            IF GetVolumeLiters(rooms_list[i]) <= 0 THEN rooms_list[i]
                            ELSE BreachExchange(Respiration(rooms_list[i]))],
                         doors_list)
       /\ \A dt_hours \in StepHours :
             UpdateSimulation(dt_hours) => sim'.rooms = InOrder(sim.rooms, sim.doors, dt_hours)]_vars

\* the colony after its first hour, in which somebody breathed in a breached room that
\* an open door joins to another room: the levels are those of the three rules in order,
\* and no other order gives them
C11_Witness ==
    /\ program = Colony /\ sim.time_step = 1
    /\ \E i \in 1 .. Len(sim.rooms) :
          sim.rooms[i].population > 0 /\ sim.rooms[i].breaches # <<>>
    /\ sim.rooms = InOrder(FreshRooms, sim.doors, 1)
    /\ sim.rooms # ColonyStepRoomsDoorsFirst(FreshRooms, sim.doors, 1)

\* ---- C12
\* the true values a sensor of the colony is read at, and the draws
ColonyTrueValues(gas) == {0, MarsLevel(gas), IF gas = "O2" THEN NORMAL_O2_PERCENTAGE
                                             ELSE NORMAL_CO2_PPM}
\* sensor i has just been read at the values it stands in
ReadAtItsPlace(i) ==
    \E draws \in NoiseDraws :
        LET read == ReadGasLevels(sensors_list[i],
                                  TrueValueAtSensor(sensors_list[i], "O2",
                                                    o2_field_ground_truth',
                                                    co2_field_ground_truth', rooms_list'),
                                  TrueValueAtSensor(sensors_list[i], "CO2",
                                                    o2_field_ground_truth',
                                                    co2_field_ground_truth', rooms_list'),
                                  draws[2], draws[3])
        IN /\ sensors_list'[i] = read
           /\ ReturnedGasLevels(read)[1] >= 0 /\ ReturnedGasLevels(read)[2] >= 0
           /\ ReturnedGasLevels(read)
                = <<sensors_list'[i].last_o2_reading, sensors_list'[i].last_co2_reading>>

\* C12: every reading a sensor read returns is >= 0, whatever the true value and the
\* noise drawn, and after the read the sensor's last reading of each gas is the value
\* returned for that gas.
C12_ReadingsNonNegative ==
    [][/\ (EstimatorRuns /\ SKLEARN_AVAILABLE /\ sensors_list # <<>>) =>
             /\ \A i \in 1 .. Len(sensors_list) : ReadAtItsPlace(i)
             /\ ViewedModel'.fitted => \A i \in 1 .. Len(ViewedModel'.y) : ViewedModel'.y[i] >= 0
       /\ \A noise \in {0 - 1, 1} :
             /\ \A true_value \in ColonyTrueValues("O2") :
                   LET read == ReadO2(ColonySensor(<<15, 15>>), true_value, noise)
                   IN read.returned >= 0 /\ read.sensor.last_o2_reading = read.returned
             /\ \A true_value \in ColonyTrueValues("CO2") :
                   LET read == ReadCO2(ColonySensor(<<15, 15>>), true_value, noise)
                   IN read.returned >= 0 /\ read.sensor.last_co2_reading = read.returned]_vars

\* a sensor in the Mars air whose O2 draw fell below zero and was floored
C12_Witness ==
    \E i \in 1 .. Len(sensors_list) :
        /\ FirstRoomAt(rooms_list, <<sensors_list[i].x, sensors_list[i].y>>) = 0
        /\ sensors_list[i].last_o2_reading = 0
        /\ sensors_list[i].last_co2_reading > 0

\* ---- C13
\* the rooms a sensor stands in, and those of them the sensors do not pass over
RoomsAround(sensor) ==
    {i \in 1 .. Len(rooms_list) : RoomContainsPoint(rooms_list[i], <<sensor.x, sensor.y>>)}
TypedRoomsAround(sensor) == {i \in RoomsAround(sensor) : HasType(rooms_list[i])}
\* the true values the rule allows for a sensor, given the rooms that count
TrueValuesByRule(sensor, around) ==
    LET cell == CanvasToSimCoords(<<sensor.x, sensor.y>>)
    IN IF around # {} THEN {RoomLevel(rooms_list[i], current_gas_view) : i \in around}
       ELSE IF cell # <<>> THEN {ViewedTruth[cell]}
       ELSE {MarsLevel(current_gas_view)}
\* the readings collected for the estimator come from the true values of the rule
CollectedByRule(i, around) ==
    \E draws \in NoiseDraws :
        \E true_value \in TrueValuesByRule(sensors_list[i], around) :
            ViewedModel.y[i] = NoisyReading(current_gas_view, true_value, draws[1])
\* the estimator has just collected readings and fitted them
JustCollected == status_suffix = StatusFitted /\ pc = "idle" /\ Len(ViewedModel.y) = Len(sensors_list)

\* C13 as stated: the true value used for a sensor is the level of a room containing its
\* position if any room contains it, else the ground-truth value of its grid cell, else
\* (off the grid) the ambient baseline of the gas.
C13_TrueValueAsStated ==
    [][(\E gas \in Gases : OnGasViewChange(gas)) =>
          (JustCollected' =>
              \A i \in 1 .. Len(sensors_list') : CollectedByRule(i, RoomsAround(sensors_list[i]))')]_vars

\* C13, amended: the true value used for a sensor is the level of a room that contains
\* its position and (integrated.py) is not of type NONE, if there is such a room; else
\* the ground-truth value of the grid cell containing the position; else, off the grid,
\* the ambient baseline of the gas.
C13_TrueValueBySensorPlace ==
    [][(\E gas \in Gases : OnGasViewChange(gas)) =>
          (JustCollected' =>
              \A i \in 1 .. Len(sensors_list') :
                  CollectedByRule(i, TypedRoomsAround(sensors_list[i]))')]_vars

\* a reading taken outside the rooms in a grid cell that holds room air
C13_Witness ==
    /\ JustCollected
    /\ \E i \in 1 .. Len(sensors_list) :
          /\ RoomsAround(sensors_list[i]) = {}
          /\ CanvasToSimCoords(<<sensors_list[i].x, sensors_list[i].y>>) # <<>>
          /\ ViewedTruth[CanvasToSimCoords(<<sensors_list[i].x, sensors_list[i].y>>)]
                # MarsLevel(current_gas_view)
          /\ CollectedByRule(i, {})

\* ---- C14
RoomIds(rooms) == {rooms[i].id : i \in 1 .. Len(rooms)}
DoorsReferToRooms(doors, rooms) ==
    \A i \in 1 .. Len(doors) :
        doors[i].room1_id \in RoomIds(rooms) /\ doors[i].room2_id \in RoomIds(rooms)
\* C14: whatever rooms and doors are added (the two clicks of a door possibly cancelled
\* by Escape or a change of tool), whatever is deleted or cleared and however often the
\* simulation is started and stopped, both room ids of every door in doors_list are ids
\* of rooms in rooms_list; deleting a room removes every door that refers to it.
C14_DoorsReferToRooms ==
    /\ [](program = Designer => DoorsReferToRooms(doors_list, rooms_list))
    /\ [][(DeleteSelectedItem(AirSession) /\ selected_room_obj # NoneId /\ ~sim_running) =>
             /\ selected_room_obj \notin RoomIds(rooms_list')
             /\ \A i \in 1 .. Len(doors_list') :
                   /\ doors_list'[i].room1_id # selected_room_obj
                   /\ doors_list'[i].room2_id # selected_room_obj
                   /\ \E j \in 1 .. Len(doors_list) : doors_list[j] = doors_list'[i]]_vars
\* two clicks have hung a door between two rooms, and the room of its second click is
\* selected for deletion
C14_Witness ==
    /\ program = Designer /\ ~sim_running /\ pc = "idle"
    /\ \E i \in 1 .. Len(doors_list) :
          /\ doors_list[i].room1_id # doors_list[i].room2_id
          /\ doors_list[i].room2_id = selected_room_obj
    /\ DoorsReferToRooms(doors_list, rooms_list)

\* ---- C15
\* a door one of whose ids is the id of no room (0, the exterior of the sample colony,
\* and None, the exterior of the designer, are not counted as rooms that are missing)
Dangling(door, rooms) ==
    \/ door.room1_id \notin RoomIds(rooms) \cup {0, NoneId}
    \/ door.room2_id \notin RoomIds(rooms) \cup {0, NoneId}
\* C15: a step that meets a door referring to a room that does not exist removes the
\* door from the door collection; it does not leave the door in place, and it exchanges
\* no gas for it.
C15_DanglingDoorRemoved ==
    [][/\ \A dt_hours \in StepHours :
             UpdateSimulation(dt_hours) =>
                 LET Sound(d) == ~Dangling(d, sim.rooms)
                 IN /\ sim'.doors = SelectSeq(sim.doors, Sound)
                    /\ sim'.rooms = InOrder(sim.rooms, SelectSeq(sim.doors, Sound), dt_hours)
       /\ (RunSimulationStep(AirSession) /\ sim_running) =>
             LET Sound(d) == ~Dangling(d, rooms_list)
             IN doors_list' = SelectSeq(doors_list, Sound)]_vars

\* ---- C16
\* rate r lies strictly between nothing and the rate of an open door
LeaksLessThanOpen(r, open) == r[1] > 0 /\ r[1] * open[2] < open[1] * r[2]
\* C16: a closed door is never fully sealed: whatever has been toggled, the flow rate the
\* step uses for a door that is not open is strictly greater than 0 and strictly less
\* than the flow rate of an open door.
C16_ClosedDoorLeaks ==
    /\ \A i \in 1 .. Len(doors_list) :
          ~doors_list[i].is_open =>
              LeaksLessThanOpen(DOOR_FLOW_RATE_CLOSED_PER_HOUR, DOOR_FLOW_RATE_OPEN_PER_HOUR)
    /\ \A i \in 1 .. Len(sim.doors) :
          ~sim.doors[i].is_open =>
              LeaksLessThanOpen(sim.doors[i].flow_rate, ColonyDoor(1, 2, <<20, 15>>, TRUE).flow_rate)

\* ---- C17
\* room r moves toward the ambient baseline by rate * (ambient - current)
TowardBaseline(before, after, r, rate) ==
    \A gas \in Gases :
        RoomLevel(after[r], gas)
          = RoomLevel(before[r], gas) + Scaled(MarsLevel(gas) - RoomLevel(before[r], gas), rate)
\* C17: for a door whose second side is the exterior (None in the designer, 0 in the
\* colony), a step with no population and no breach moves the O2 and CO2 of the room on
\* its first side toward the ambient baseline by flow_rate * dt * (ambient - current);
\* the ambient baseline is the same after the step as before it.
C17_ExteriorDoorExchange ==
    [][/\ (/\ RunSimulationStep(AirSession) /\ sim_running
           /\ Len(doors_list) = 1 /\ Hazards(rooms_list) = 0
           /\ doors_list[1].room2_id = NoneId
           /\ GetRoomById(rooms_list, doors_list[1].room1_id) # 0) =>
             TowardBaseline(rooms_list, rooms_list',
                            GetRoomById(rooms_list, doors_list[1].room1_id),
                            RatMul(IF doors_list[1].is_open THEN DOOR_FLOW_RATE_OPEN_PER_HOUR
                                   ELSE DOOR_FLOW_RATE_CLOSED_PER_HOUR, SIM_DT_HOURS))
       /\ \A dt_hours \in StepHours :
             (/\ UpdateSimulation(dt_hours)
              /\ Len(sim.doors) = 1 /\ sim.doors[1].room2_id = 0
              /\ \A i \in 1 .. Len(sim.rooms) :
                    sim.rooms[i].population = 0 /\ sim.rooms[i].breaches = <<>>) =>
                \A i \in 1 .. Len(sim.rooms) :
                    sim.rooms[i].id = sim.doors[1].room1_id =>
                        TowardBaseline(sim.rooms, sim'.rooms, i,
                                       RatMul(sim.doors[1].flow_rate, <<dt_hours, 1>>))]_vars

\* ---- C18
\* the threads that are inside update_simulation
Updating == {t \in 1 .. Len(sim.threads) : sim.threads[t].pc \in {"respiration", "breaches", "doors", "sensors"}}
\* C18: whatever start and stop calls are made on the thread-driven ColonySimulation, at
\* most one background loop is executing the update at any time.
C18_OneLoopUpdates == Cardinality(Updating) <= 1

\* ---- C20
\* the threads that have applied a rule of their pass and have a rule still to apply
MidPass == {t \in 1 .. Len(sim.threads) : sim.threads[t].pc \in {"breaches", "doors"}}
\* a callback of the visualizer changes the colony
UiMutation ==
    /\ \/ \E p \in ColonyPoints, flow_rate \in BreachFlowRates : AddBreach(p, flow_rate)
       \/ \E p \in ColonyPoints : ToggleDoor(p)
       \/ \E room_id \in 1 .. ColonyMaxRooms, population \in 0 .. ColonyMaxPopulation :
             SetPopulation(room_id, population)
    /\ sim' # sim
\* C20: a mutation made by a UI callback (a breach added, a door toggled, a population
\* changed) never takes effect in the middle of an update_simulation pass: while a
\* single loop is between the first and the last rule of its pass, rooms, doors and
\* breaches stay as the pass found them.
C20_PassSeesOneSnapshot ==
    [][(UiMutation /\ Len(sim.threads) = 1) => MidPass = {}]_vars

\* ---- C19
\* the handlers that edit the plan: a click with a drawing tool or on the plan, a drag,
\* the Delete key and the two Clear buttons
EditAttempt ==
    \/ \E p \in AirSession.ClickPoints : HandleMouseDown(AirSession, p) /\ current_mode # "select"
    \/ \E p \in AirSession.ClickPoints : HandleMouseDrag(AirSession, p)
    \/ DeleteSelectedItem(AirSession)
    \/ ClearAllSensors(AirSession)
    \/ ClearAllDoors(AirSession)
\* C19: while sim_running is true, adding a room, a sensor or a door, deleting the
\* selection, clearing the sensors or the doors and dragging are rejected: rooms_list,
\* sensors_list, doors_list and the geometry of every room stay as they were (and so
\* does the first room of a door that was being placed).
C19_EditsRejectedWhileRunning ==
    [][(sim_running /\ EditAttempt) =>
          /\ rooms_list' = rooms_list
          /\ sensors_list' = sensors_list
          /\ doors_list' = doors_list
          /\ room_id_counter' = room_id_counter
          /\ temp_door_room1_id' = temp_door_room1_id]_vars
\* the simulation runs with the door tool in hand, the first room of a door clicked, and
\* a door hanging that Clear All Doors would remove
C19_Witness ==
    /\ program = Designer /\ sim_running /\ pc = "idle"
    /\ ticks_since_init >= 1
    /\ current_mode = "add_door"
    /\ temp_door_room1_id # NoneId
    /\ Len(rooms_list) < AirMaxRooms
    /\ doors_list # <<>>

\* ---- C21
FlatField == \A c, d \in Cells : gp_reconstructed_field[c] = gp_reconstructed_field[d]
\* C21: after every update_gp_model_and_predict the display range has
\* current_gp_display_max > current_gp_display_min and current_gp_display_min >= 0,
\* also when the reconstructed field is flat (all cells equal, all zero included).
C21_DisplayRangeOpen ==
    [][/\ EstimatorRuns =>
             (current_gp_display_max' > current_gp_display_min' /\ current_gp_display_min' >= 0)
       /\ \A gas \in Gases : \A level \in {0, MarsLevel(gas), MaxClip(gas)} :
             LET scale == DisplayScale([c \in Cells |-> level], gas)
             IN scale[2] > scale[1] /\ scale[1] >= 0]_vars
\* an update has left a flat field on display, with a range of positive width
C21_Witness ==
    /\ status_suffix # Unfitted
    /\ FlatField
    /\ current_gp_display_min = DisplayScale(gp_reconstructed_field, current_gas_view)[1]
    /\ current_gp_display_max = DisplayScale(gp_reconstructed_field, current_gas_view)[2]
    /\ current_gp_display_max > current_gp_display_min

\* ---- C27
\* C27: starting through the "Initialize & Run Sim" branch of toggle_simulation
\* initializes the gas fields: right after the start, before the first tick, every room
\* has o2_level = 21.0 and co2_level = 400.0 and the ground-truth fields hold those values
\* inside rooms, whatever levels a previous run left behind.
C27_StartInitializesFields ==
    [][StartUpdate =>
          /\ \A i \in 1 .. Len(rooms_list') :
                /\ rooms_list'[i].o2_level = NORMAL_O2_PERCENTAGE
                /\ rooms_list'[i].co2_level = NORMAL_CO2_PPM
          /\ \A c \in Cells :
                FirstRoomAt(rooms_list', SimToCanvasCoordsCenter(c)) # 0 =>
                   /\ o2_field_ground_truth'[c] = NORMAL_O2_PERCENTAGE
                   /\ co2_field_ground_truth'[c] = NORMAL_CO2_PPM]_vars

\* ---- C28
\* the doors drawn at a point
DoorsAt(p) == {i \in 1 .. Len(doors_list) : DoorContainsPoint(doors_list[i], p)}
\* C28: door toggling stays available while the simulation runs: whenever sim_running is
\* true, a mouse-down on a door flips that door's is_open, whatever drawing mode was
\* selected when the simulation was started.
C28_DoorTogglesWhileRunning ==
    (program = Designer /\ sim_running) =>
       \A p \in AirSession.ClickPoints :
          \A i \in DoorsAt(p) :
             RunningMouseDown(doors_list, current_mode, p)[i].is_open = ~doors_list[i].is_open

\* ---- C29
\* the reading of the viewed gas a sensor has stored
LastReading(sensor, gas) ==
    IF gas = "O2" THEN sensor.last_o2_reading ELSE sensor.last_co2_reading
\* C29: in one update, for every sensor the noisy reading of the viewed gas passed to
\* the estimator's fit equals the value the same update stores in that sensor's
\* last-reading field for that gas: the displayed reading is the reading that was fitted.
C29_FittedReadingIsStored ==
    [][EstimatorRuns =>
          (JustCollected' =>
              \A i \in 1 .. Len(sensors_list') :
                 ViewedModel.y[i]' = LastReading(sensors_list[i], current_gas_view)')]_vars

\* ---- C26
\* the gas levels of the rooms, in list order
RoomLevels(rooms) == [i \in 1 .. Len(rooms) |-> <<rooms[i].o2_level, rooms[i].co2_level>>]
\* a toggle_simulation call or a timer firing
ToggleOrTimer == ToggleSimulation(SensingSession) \/ RunSimulationStep(SensingSession)
\* C26: for any sequence of toggle_simulation calls and timer firings, at most one
\* run_simulation_step callback is pending at any time, and from the moment
\* toggle_simulation stops the simulation until it is started again no tick runs (no
\* callback is left to fire) and no room's o2_level or co2_level changes.
C26_OneCallbackNoTickWhileStopped ==
    /\ [](after_jobs <= 1)
    /\ [](~sim_running => after_jobs = 0 /\ ~sim_job_id /\ pc = "idle")
    /\ [][(ToggleOrTimer /\ ~sim_running') => RoomLevels(rooms_list') = RoomLevels(rooms_list)]_vars
\* stopped after a run whose ticks have moved the air of a room, nothing left to fire
C26_Witness ==
    /\ program = Designer /\ ~sim_running /\ pc = "idle"
    /\ after_jobs = 0
    /\ ticks_since_init >= 2
    /\ \E i \in 1 .. Len(rooms_list) : rooms_list[i].o2_level < NORMAL_O2_PERCENTAGE

\* ---- C22
\* C22: in every reachable state each room's o2_level is a percentage within [0, 100],
\* also after run_simulation_step of the integrated application has assigned the room
\* levels from the oxygen profile.
C22_OxygenIsPercentage ==
    program = Designer =>
       \A i \in 1 .. Len(rooms_list) :
          rooms_list[i].o2_level >= 0 /\ rooms_list[i].o2_level <= 100 * O2Scale

\* ---- C24
\* C24: in every reachable state of the integrated DrawingApp, also after a canvas resize
\* while stopped or running, the reconstructed field has the grid shape of the
\* ground-truth fields and of map_mask, so that every cell index
\* draw_field_visualization visits is valid for the reconstructed field.
C24_ReconstructionHasGridShape ==
    program = Designer =>
       /\ gp_field_shape = habitat.sim_grid
       /\ ~DrawFieldVisualizationRaises(gp_field_shape, habitat.sim_grid, rooms_list)

\* ---- C23
\* the grid cells whose centre lies in no room
CellsOutside(rooms) == {c \in Cells : FirstRoomAt(rooms, SimToCanvasCoordsCenter(c)) = 0}
\* C23: after every field initialization and after every tick, each ground-truth grid
\* cell whose centre lies in no room holds the ambient baseline of its gas (O2 0.13 %,
\* CO2 950000 ppm), for any room layout and any sequence of edits, starts, stops and
\* ticks.
C23_AmbientOutsideRooms ==
    program = Designer =>
       \A c \in CellsOutside(rooms_list) :
          /\ o2_field_ground_truth[c] = (13 * O2Scale) \div 100
          /\ co2_field_ground_truth[c] = 950000 * CO2Scale
\* a tick has moved the air of a room that leaves a cell of the grid outside
C23_Witness ==
    /\ program = Designer /\ pc = "idle" /\ sim_running
    /\ ticks_since_init >= 1
    /\ rooms_list # <<>>
    /\ CellsOutside(rooms_list) # {}
    /\ \E c \in Cells \ CellsOutside(rooms_list) :
          o2_field_ground_truth[c] \notin {MARS_O2_PERCENTAGE, NORMAL_O2_PERCENTAGE}

\* ---- C25
\* the variance a sensor of the designer is configured with
ConfiguredVariance(sensor, gas) == IF gas = "O2" THEN sensor.o2_variance ELSE sensor.co2_variance
\* C25: a sensor read draws each gas reading from a Normal distribution whose mean is the
\* true value and whose variance is the sensor's configured variance for that gas: the
\* standard deviation handed to the sampler is the square root of the configured
\* variance, in every sensor implementation (idpCreateHome.py, better-sample.py,
\* sample.py).
C25_SamplerGetsStandardDeviation ==
    [][\A gas \in Gases :
          /\ (EstimatorRuns /\ SKLEARN_AVAILABLE) =>
                \A i \in 1 .. Len(sensors_list) :
                   ReadGasLevelsScale(sensors_list[i], gas)
                      = Sqrt(ConfiguredVariance(sensors_list[i], gas))
          /\ ReadScale(ColonySensor(<<15, 15>>), gas)
                = Sqrt(IF gas = "O2" THEN ColonySensor(<<15, 15>>).variance_o2
                       ELSE ColonySensor(<<15, 15>>).variance_co2)
          /\ SensorModelReadScale(SensorModel(15, 15), gas)
                = Sqrt(IF gas = "O2" THEN SensorModel(15, 15).var_o2
                       ELSE SensorModel(15, 15).var_co2)]_vars

\* ---- C30
\* C30: in better-sample.py, under any interleaving of add_sensor (UI thread), the
\* sensor-update phase of the simulation thread and the plot timer, every sensor that
\* ColonyVisualizer._update_plots renders in a room has non-null last_o2_reading and
\* last_co2_reading: a sensor is always read at least once before it is displayed.
C30_SensorReadBeforeDisplayed ==
    (program = Colony /\ sim.threads # <<>>) =>
       \A i \in 1 .. Len(sim.rooms) : Unrendered(sim.rooms[i]) = {}
====
